---- MODULE Spec2Model ----
(***************************************************************************)
(* Variant-centric product configuration engine of cap-admin.              *)
(*                                                                         *)
(* Three instances of the engine are modelled, one per React component:    *)
(*   "create" : src/src/pages/Products/ProductCreate.tsx                    *)
(*   "editA"  : src/unnamed/part_000 lines 1-741   (ProductEdit, ImageItem) *)
(*   "editB"  : src/unnamed/part_000 lines 742-1261 (ProductEdit,           *)
(*              uploadedImageUrls)                                          *)
(*                                                                         *)
(* Sequences are 1-based here, arrays 0-based in the source: index 1 of    *)
(* the model is index 0 of the source.                                     *)
(*                                                                         *)
(* JavaScript objects are shared by reference between the React state and  *)
(* the array captured by a running handleSubmit.  The record fields obj,   *)
(* imgA and urlA of a state variant name the slot of the captured array     *)
(* whose object, images array or uploadedImageUrls array it shares (0 =    *)
(* none), so that an in-place mutation is seen through every alias.        *)
(***************************************************************************)
EXTENDS Integers, Sequences, FiniteSets, TLC

\* ------------------------------------------------------------------ bounds
\* Spec, the submission flow: variants, submissions, edits made in flight, files picked
MaxVariants == 2
MaxSubmits == 1
MaxInterleaved == 1
MaxPicks == 2
\* SpecCollection, the variant collection manager alone
MaxCollection == 3
\* SpecForm, the form and its validation (with MaxSubmits)
MaxFormVariants == 2

\* SpecImages, the image sets filled to their limit: files picked
MaxImagePicks == 6
\* SpecUploads, the requests of a submission one after the other: files
\* picked, submissions, fields updated in flight
MaxUploadPicks == 2
MaxUploadSubmits == 1
MaxUploadInterleaved == 1
\* SpecRetry, a failed submission and its retry: files picked, submissions
MaxRetryPicks == 3
MaxRetrySubmits == 2

\* ------------------------------------------------------- program constants
MaxImages == 5

VARIABLES
    mode,          \* which component is mounted: "create", "editA", "editB"
    view,          \* what is on screen: "spinner", "form", "left", "crashed"
    pc,            \* handleSubmit / fetch position: "loading", "idle", "uploadG", "upload", "api", "done"
    name,          \* useState name
    description,   \* useState description
    variants,      \* useState variants
    globalImages,  \* useState globalImages (editA)
    globalStock,   \* useState globalStock (editA): <<n>>, or <<>> for ''
    submitting,    \* useState submitting
    cl,            \* what the running handleSubmit captured and its loop position
    net,           \* the request in flight
    payload,       \* the last payload handed to the product API
    toast,         \* the user-visible message raised by the last step
    nSubmits,      \* submissions accepted so far
    nEdits,        \* edits made while the current submission is in flight
    nPicks,        \* files picked so far
    slug,          \* useState slug
    specs          \* useState specs (editA): the list of {key, value}

vars == <<mode, view, pc, name, description, variants, globalImages, globalStock,
          submitting, cl, net, payload, toast, nSubmits, nEdits, nPicks, slug, specs>>

\* ----------------------------------------------------------------- strings
\* A string is a sequence of one-character strings.
WS == {" "}

RECURSIVE TrimLeft(_)
TrimLeft(s) == IF s # <<>> /\ Head(s) \in WS THEN TrimLeft(Tail(s)) ELSE s

RECURSIVE TrimRight(_)
TrimRight(s) ==
    IF s # <<>> /\ s[Len(s)] \in WS THEN TrimRight(SubSeq(s, 1, Len(s) - 1)) ELSE s

\* String.prototype.trim
Trim(s) == TrimRight(TrimLeft(s))

\* !s.trim()
Blank(s) == Trim(s) = <<>>

Undef == "undefined"
NoToast == "none"

\* ------------------------------------------------------------------- slug
\* String.prototype.toLowerCase: the letters A to Z go to a to z, every other
\* character of the names used here is its own lower case.
ToLowerCase(s) ==
    LET Upper == <<"A", "B", "C", "D", "E", "F", "G", "H", "I", "J", "K", "L", "M",
                   "N", "O", "P", "Q", "R", "S", "T", "U", "V", "W", "X", "Y", "Z">>
        Lower == <<"a", "b", "c", "d", "e", "f", "g", "h", "i", "j", "k", "l", "m",
                   "n", "o", "p", "q", "r", "s", "t", "u", "v", "w", "x", "y", "z">>
        LowerOf(c) == IF \E i \in 1..26 : Upper[i] = c
                      THEN Lower[CHOOSE i \in 1..26 : Upper[i] = c]
                      ELSE c
    IN [j \in 1..Len(s) |-> LowerOf(s[j])]

\* \w of a regular expression without the u flag: [A-Za-z0-9_]
WordChars ==
    {"a", "b", "c", "d", "e", "f", "g", "h", "i", "j", "k", "l", "m",
     "n", "o", "p", "q", "r", "s", "t", "u", "v", "w", "x", "y", "z",
     "A", "B", "C", "D", "E", "F", "G", "H", "I", "J", "K", "L", "M",
     "N", "O", "P", "Q", "R", "S", "T", "U", "V", "W", "X", "Y", "Z",
     "0", "1", "2", "3", "4", "5", "6", "7", "8", "9", "_"}

\* s.replace(/C{min,}/g, '-'): every maximal run of at least min characters
\* of the class Cls becomes one hyphen; /\s+/g is (WS, 1), /\-\-+/g is ({"-"}, 2).
RECURSIVE ReplaceRuns(_, _, _)
ReplaceRuns(s, Cls, min) ==
    IF s = <<>> THEN <<>>
    ELSE LET n == CHOOSE k \in 0..Len(s) :
                      /\ \A j \in 1..k : s[j] \in Cls
                      /\ (k = Len(s) \/ s[k + 1] \notin Cls)
             rest == SubSeq(s, n + 1, Len(s))
         IN IF n >= min THEN <<"-">> \o ReplaceRuns(rest, Cls, min)
            ELSE IF n > 0 THEN SubSeq(s, 1, n) \o ReplaceRuns(rest, Cls, min)
            ELSE <<Head(s)>> \o ReplaceRuns(Tail(s), Cls, min)

RECURSIVE StripHyphens_leadingOnly(_)
StripHyphens_leadingOnly(s) ==
    IF s # <<>> /\ Head(s) = "-" THEN StripHyphens_leadingOnly(Tail(s)) ELSE s

\* s.replace(/^-+|-+$/g, '')
RECURSIVE StripHyphens(_)
StripHyphens(s) ==
    IF s # <<>> /\ Head(s) = "-" THEN StripHyphens(Tail(s))
    ELSE IF s # <<>> /\ s[Len(s)] = "-" THEN StripHyphens(SubSeq(s, 1, Len(s) - 1))
    ELSE s

generated_stripsFirst(n) ==
    LET hyphenated == StripHyphens(ReplaceRuns(ToLowerCase(n), WS, 1))
        wordsOnly  == SelectSeq(hyphenated, LAMBDA c : c \in WordChars \cup {"-"})
    IN ReplaceRuns(wordsOnly, {"-"}, 2)

\* const generated = name.toLowerCase().replace(/\s+/g, '-')
\*     .replace(/[^\w\-]+/g, '').replace(/\-\-+/g, '-').replace(/^-+|-+$/g, '')
generated(n) ==
    LET hyphenated == ReplaceRuns(ToLowerCase(n), WS, 1)
        wordsOnly  == SelectSeq(hyphenated, LAMBDA c : c \in WordChars \cup {"-"})
    IN StripHyphens(ReplaceRuns(wordsOnly, {"-"}, 2))

\* ProductCreate: useEffect(() => { if (name.trim()) setSlug(generated.trim())
\* else setSlug('') }, [name])
Create_slugEffect(n) == IF ~Blank(n) THEN Trim(generated(n)) ELSE <<>>

\* ProductEdit (ImageItem): useEffect(() => { if (!name.trim()) { setSlug('');
\* return }; setSlug(generated) }, [name])
EditA_slugEffect(n) == IF Blank(n) THEN <<>> ELSE generated(n)

\* ProductEdit (uploadedImageUrls): useEffect(() => { if (name.trim() && !slug)
\* setSlug(generated.trim()) }, [name, slug])
EditB_slugEffect(n, sl) == IF ~Blank(n) /\ sl = <<>> THEN Trim(generated(n)) ELSE sl

\* The slug once React has run the effects a render with name n starts.
SlugEffect(n, sl) ==
    CASE mode = "create" -> Create_slugEffect(n)
      [] mode = "editA"  -> EditA_slugEffect(n)
      [] mode = "editB"  -> EditB_slugEffect(n, sl)

\* --------------------------------------------------------- sequence helpers
\* Array.prototype.filter((_, i) => i !== index)
RemoveAt(s, index) ==
    [j \in 1..(Len(s) - 1) |-> IF j < index THEN s[j] ELSE s[j + 1]]

\* Array.prototype.filter(keep)
Filter(s, Keep(_)) == SelectSeq(s, Keep)

Map(s, F(_)) == [j \in 1..Len(s) |-> F(s[j])]

\* ------------------------------------------------------------------ images
\* The upload collaborator answers each file with one URL, in order.
UrlOf(f) == CASE f = "f1" -> "u1" [] f = "f2" -> "u2" [] OTHER -> "u3"

\* URL.createObjectURL
BlobOf(f) == CASE f = "f1" -> "blob:f1" [] f = "f2" -> "blob:f2" [] OTHER -> "blob:f3"

\* { file, preview } of a newly picked file (isNew only in editB)
NewItem(f, isNew) == [file |-> f, preview |-> BlobOf(f), url |-> Undef, isNew |-> isNew]

\* { url, preview: url } of a fetched image (editA)
UrlItem(u) == [file |-> Undef, preview |-> u, url |-> u, isNew |-> FALSE]

\* { preview: url, isNew: false } of a fetched image (editB)
PreviewItem(u) == [file |-> Undef, preview |-> u, url |-> Undef, isNew |-> FALSE]

HasFile(img) == img.file # Undef
HasUrl(img) == img.url # Undef
FileOfItem(img) == img.file
UrlOfItem(img) == img.url

\* ---------------------------------------------------------------- variants
NewVariant(isDefault) ==
    [id |-> Undef, name |-> <<>>, sku |-> <<>>, price |-> 0, stock |-> 0,
     isDefault |-> isDefault, images |-> <<>>, uploadedImageUrls |-> <<>>,
     obj |-> 0, imgA |-> 0, urlA |-> 0]

IsDefault(v) == v.isDefault

\* variants.some(v => v.isDefault)
SomeDefault(vs) == \E j \in 1..Len(vs) : vs[j].isDefault

DefaultCount(vs) == Cardinality({j \in 1..Len(vs) : vs[j].isDefault})


\* variants.every(v => v.name.trim() && v.sku.trim() && v.price >= 0)
EveryVariantFilled(vs) ==
    \A j \in 1..Len(vs) : ~Blank(vs[j].name) /\ ~Blank(vs[j].sku) /\ vs[j].price >= 0

\* ---------------------------------------------------------------- aliasing
\* The object at slot k of the captured array is in the state at index j.
Shares(S, k) == {j \in 1..Len(S) : S[j].obj = k}

\* obj.field = val on the state object at index j
SetInPlace(S, V, j, field, val) ==
    [S |-> [S EXCEPT ![j][field] = val],
     V |-> IF S[j].obj # 0 THEN [V EXCEPT ![S[j].obj][field] = val] ELSE V]

\* obj.field = (a new array) on the state object at index j; ref is the alias
\* field of that array
Reassign(S, V, j, field, ref, val) ==
    [S |-> [S EXCEPT ![j][field] = val, ![j][ref] = S[j].obj],
     V |-> IF S[j].obj # 0 THEN [V EXCEPT ![S[j].obj][field] = val] ELSE V]

\* obj.field.push(...items) on the state object at index j
PushInPlace(S, V, j, field, ref, items) ==
    [S |-> [S EXCEPT ![j][field] = @ \o items],
     V |-> IF S[j][ref] # 0 THEN [V EXCEPT ![S[j][ref]][field] = @ \o items] ELSE V]

\* captured[k].field.push(...items)
ClPush(S, V, k, field, ref, items) ==
    [S |-> [j \in 1..Len(S) |->
               IF S[j][ref] = k THEN [S[j] EXCEPT ![field] = @ \o items] ELSE S[j]],
     V |-> [V EXCEPT ![k][field] = @ \o items]]

\* captured[k].field = (a new array)
ClReassign(S, V, k, field, ref, val) ==
    [S |-> [j \in 1..Len(S) |->
               IF S[j].obj = k THEN [S[j] EXCEPT ![field] = val]
               ELSE IF S[j][ref] = k THEN [S[j] EXCEPT ![ref] = 0]
               ELSE S[j]],
     V |-> [V EXCEPT ![k][field] = val]]

\* The array a handleSubmit captures: the state's own objects.
Capture(S) == [j \in 1..Len(S) |-> [S[j] EXCEPT !.obj = j, !.imgA = j, !.urlA = j]]

\* No handleSubmit is running: nothing is captured.
ClearRefs(S) == [j \in 1..Len(S) |-> [S[j] EXCEPT !.obj = 0, !.imgA = 0, !.urlA = 0]]

\* What an upload routine returned to handleSubmit: the URLs, and whether it
\* sent no request ("skipped") or its request succeeded ("ok") or failed.
Returned(out, urls) == [out |-> out, urls |-> urls]

\* ret[j] is what the routine of variant j returned, gOut how the routine of
\* the global set ended ("pending" while its request is in flight).
NoCl == [V |-> <<>>, G |-> <<>>, i |-> 0, hasVariants |-> FALSE, basePrice |-> <<>>,
         name |-> <<>>, description |-> <<>>, globalStock |-> <<>>,
         finalGlobalUrls |-> <<>>, ret |-> <<>>, gOut |-> "skipped",
         slug |-> <<>>, specs |-> <<>>]

NoNet == [kind |-> "none", files |-> <<>>]
UploadReq(files) == [kind |-> "upload", files |-> files]
ApiReq == [kind |-> "api", files |-> <<>>]
FetchReq == [kind |-> "fetch", files |-> <<>>]

\* An optional number is <<n>> when present and <<>> when absent; hasVariants
\* tells whether the payload has a variants field.
NoPayload ==
    [sent |-> FALSE, name |-> <<>>, description |-> <<>>, images |-> <<>>,
     hasVariants |-> FALSE, variants |-> <<>>, basePrice |-> <<>>, stock |-> <<>>,
     slug |-> <<>>, specs |-> <<>>]

InFlight == {"uploadG", "upload", "api"}

\* The form is on screen: its controls answer, also while a submission runs
\* (only the submit and cancel buttons are disabled by `submitting`).
\* Button, the component of components/ui/button the three forms are built
\* with: a control submits its form when it is of type "submit" and not
\* disabled; the other buttons of the forms run their onClick only.
Button_submits(type, disabled) == type = "submit" /\ ~disabled

\* <Button type="submit" disabled={submitting || uploading}>; uploading is set
\* only while submitting is.
SubmitControlEnabled == Button_submits("submit", submitting)

CanEdit == view = "form" /\ pc \in ({"idle"} \cup InFlight)

EditCount == IF pc = "idle" THEN 0 ELSE nEdits + 1

\* A user edit of the variant collection: S and V after it, its toast, and
\* the number of files it picked.
EditVariants(r, t, picked) ==
    /\ variants' = r.S
    /\ cl' = [cl EXCEPT !.V = r.V]
    /\ toast' = t
    /\ nEdits' = EditCount
    /\ nPicks' = nPicks + picked
    /\ UNCHANGED <<mode, view, pc, name, description, globalImages, globalStock,
                   submitting, net, payload, nSubmits, slug, specs>>

\* A handler that only raises a toast.
OnlyToast(t) ==
    /\ toast' = t
    /\ nEdits' = EditCount
    /\ UNCHANGED <<mode, view, pc, name, description, variants, globalImages,
                   globalStock, submitting, cl, net, payload, nSubmits, nPicks,
                   slug, specs>>

\* Mutant of Rejected: setSubmitting(true) moved above the validation.
Rejected_afterSetSubmitting(t) ==
    /\ toast' = t
    /\ submitting' = TRUE
    /\ UNCHANGED <<mode, view, pc, name, description, variants, globalImages,
                   globalStock, cl, net, payload, nSubmits, nEdits, nPicks, slug, specs>>

\* handleSubmit returned at a validation check.
Rejected(t) ==
    /\ toast' = t
    /\ UNCHANGED <<mode, view, pc, name, description, variants, globalImages,
                   globalStock, submitting, cl, net, payload, nSubmits, nEdits, nPicks,
                   slug, specs>>

\* ------------------------------------------------------------ plain fields
SetName_slugKept(s) ==
    /\ CanEdit
    /\ name' = s
    /\ toast' = NoToast
    /\ nEdits' = EditCount
    /\ UNCHANGED <<mode, view, pc, description, variants, globalImages, globalStock,
                   submitting, cl, net, payload, nSubmits, nPicks, slug, specs>>

\* onChange={e => setName(e.target.value)}, then the effect on [name] when the
\* name has changed.
SetName(s) ==
    /\ CanEdit
    /\ name' = s
    /\ slug' = (IF s # name THEN SlugEffect(s, slug) ELSE slug)
    /\ toast' = NoToast
    /\ nEdits' = EditCount
    /\ UNCHANGED <<mode, view, pc, description, variants, globalImages, globalStock,
                   submitting, cl, net, payload, nSubmits, nPicks, specs>>

\* onChange={e => setDescription(e.target.value)}
SetDescription(s) ==
    /\ CanEdit
    /\ description' = s
    /\ toast' = NoToast
    /\ nEdits' = EditCount
    /\ UNCHANGED <<mode, view, pc, name, variants, globalImages, globalStock,
                   submitting, cl, net, payload, nSubmits, nPicks, slug, specs>>

\* updated.forEach((v, i) => { v.isDefault = i === index })
ForEachSetDefault(S, V, index) ==
    [S |-> [j \in 1..Len(S) |-> [S[j] EXCEPT !.isDefault = (j = index)]],
     V |-> [k \in 1..Len(V) |->
               IF Shares(S, k) # {}
               THEN [V[k] EXCEPT !.isDefault = (index \in Shares(S, k))]
               ELSE V[k]]]

\* The copy built without the spread of the stock.
SpreadUpdate_stockReset(S, V, index, field, value) ==
    [S |-> [S EXCEPT ![index] = [@ EXCEPT !.stock = 0, ![field] = value, !.obj = 0]],
     V |-> V]

\* copy[index] = { ...copy[index], [field]: value }
SpreadUpdate(S, V, index, field, value) ==
    [S |-> [S EXCEPT ![index] = [@ EXCEPT ![field] = value, !.obj = 0]], V |-> V]

\* The end of handleSubmit without its finally block.
ApiReturn_noFinally(ok, success, message, fallback) ==
    /\ pc = "api"
    /\ net' = NoNet
    /\ cl' = NoCl
    /\ variants' = ClearRefs(variants)
    /\ nEdits' = 0
    /\ submitting' = submitting
    /\ IF ok
       THEN /\ toast' = success
            /\ pc' = "done"
            /\ view' = "left"
       ELSE /\ toast' = (IF message # Undef THEN message ELSE fallback)
            /\ pc' = "idle"
            /\ view' = view
    /\ UNCHANGED <<mode, name, description, globalImages, globalStock, payload,
                   nSubmits, nPicks, slug, specs>>

ApiReturn_leavesOnFailure(ok, success, message, fallback) ==
    /\ pc = "api"
    /\ net' = NoNet
    /\ cl' = NoCl
    /\ variants' = ClearRefs(variants)
    /\ nEdits' = 0
    /\ submitting' = FALSE
    /\ toast' = (IF ok THEN success ELSE IF message # Undef THEN message ELSE fallback)
    /\ pc' = "done"
    /\ view' = "left"
    /\ UNCHANGED <<mode, name, description, globalImages, globalStock, payload,
                   nSubmits, nPicks, slug, specs>>

\* The submission ends: the captured array is dropped.  ok: toast and
\* navigate('/products'); otherwise the collaborator's message, or the
\* component's own (fallback), and back to editing.
ApiReturn(ok, success, message, fallback) ==
    /\ pc = "api"
    /\ net' = NoNet
    /\ cl' = NoCl
    /\ variants' = ClearRefs(variants)
    /\ nEdits' = 0
    /\ submitting' = FALSE
    /\ IF ok
       THEN /\ toast' = success
            /\ pc' = "done"
            /\ view' = "left"
       ELSE /\ toast' = (IF message # Undef THEN message ELSE fallback)
            /\ pc' = "idle"
            /\ view' = view
    /\ UNCHANGED <<mode, name, description, globalImages, globalStock, payload,
                   nSubmits, nPicks, slug, specs>>

\* ============================================================ ProductCreate
Create_addVariant ==
    /\ mode = "create" /\ CanEdit
    /\ EditVariants([S |-> Append(variants, NewVariant(FALSE)), V |-> cl.V], NoToast, 0)

\* Mutant of Create_removeVariant: without the check of variants.length === 1.
Create_removeVariant_unguarded(index) ==
    /\ mode = "create" /\ CanEdit
    /\ index \in 1..Len(variants)
    /\ EditVariants([S |-> RemoveAt(variants, index), V |-> cl.V], NoToast, 0)

Create_removeVariant(index) ==
    /\ mode = "create" /\ CanEdit
    /\ index \in 1..Len(variants)
    /\ IF Len(variants) = 1
       THEN OnlyToast("Au moins une variante est obligatoire")
       ELSE LET updated == RemoveAt(variants, index)
            IN IF ~SomeDefault(updated)
               THEN EditVariants(SetInPlace(updated, cl.V, 1, "isDefault", TRUE),
                                 NoToast, 0)
               ELSE EditVariants([S |-> updated, V |-> cl.V], NoToast, 0)

Create_updateVariant(index, field, value) ==
    /\ mode = "create" /\ CanEdit
    /\ index \in 1..Len(variants)
    /\ IF field = "isDefault" /\ value = TRUE
       THEN EditVariants(ForEachSetDefault(variants, cl.V, index), NoToast, 0)
       ELSE EditVariants(SpreadUpdate(variants, cl.V, index, field, value), NoToast, 0)

\* handleVariantImageChange without its check of the limit.
Create_handleVariantImageChange_unchecked(variantIndex, newFiles) ==
    /\ mode = "create" /\ CanEdit
    /\ variantIndex \in 1..Len(variants)
    /\ EditVariants(
           PushInPlace(variants, cl.V, variantIndex, "images", "imgA",
                       [j \in 1..Len(newFiles) |-> NewItem(newFiles[j], FALSE)]),
           NoToast, Len(newFiles))

Create_handleVariantImageChange(variantIndex, newFiles) ==
    /\ mode = "create" /\ CanEdit
    /\ variantIndex \in 1..Len(variants)
    /\ IF Len(variants[variantIndex].images) + Len(newFiles) > MaxImages
       THEN OnlyToast("Maximum 5 images par variante")
       ELSE EditVariants(
                PushInPlace(variants, cl.V, variantIndex, "images", "imgA",
                            [j \in 1..Len(newFiles) |-> NewItem(newFiles[j], FALSE)]),
                NoToast, Len(newFiles))

Create_removeVariantImage(variantIndex, imageIndex) ==
    /\ mode = "create" /\ CanEdit
    /\ variantIndex \in 1..Len(variants)
    /\ imageIndex \in 1..Len(variants[variantIndex].images)
    /\ LET v == variants[variantIndex]
           r1 == Reassign(variants, cl.V, variantIndex, "images", "imgA",
                          RemoveAt(v.images, imageIndex))
           urls == IF imageIndex <= Len(v.uploadedImageUrls)
                   THEN RemoveAt(v.uploadedImageUrls, imageIndex)
                   ELSE v.uploadedImageUrls
       IN EditVariants(Reassign(r1.S, r1.V, variantIndex, "uploadedImageUrls", "urlA", urls),
                       NoToast, 0)

\* The browser fires onSubmit only when no `required` input is empty and no
\* number input is below its `min`.
Create_formValid ==
    /\ name # <<>> /\ description # <<>>
    /\ \A j \in 1..Len(variants) :
          /\ variants[j].name # <<>> /\ variants[j].sku # <<>>
          /\ variants[j].price >= 0 /\ variants[j].stock >= 0

Create_cleanVariant(v) ==
    [id |-> Undef, name |-> Trim(v.name), sku |-> Trim(v.sku), price |-> v.price,
     stock |-> v.stock, images |-> v.uploadedImageUrls, isDefault |-> v.isDefault]

Create_payload(c, V) ==
    [sent |-> TRUE, name |-> Trim(c.name), description |-> Trim(c.description),
     images |-> <<>>, hasVariants |-> TRUE, variants |-> Map(V, Create_cleanVariant),
     basePrice |-> <<>>, stock |-> <<>>, slug |-> c.slug, specs |-> <<>>]

RECURSIVE Create_uploadLoop(_, _, _)
\* The loop of handleSubmit from index i up to its next network call.  For a
\* variant without local images uploadVariantImages returns the variant's own
\* uploadedImageUrls array, which handleSubmit then spreads after itself.
Create_uploadLoop(S, V, i) ==
    IF i > Len(V) THEN [S |-> S, V |-> V, i |-> i, files |-> <<>>]
    ELSE IF Len(V[i].images) = 0
         THEN LET r == ClReassign(S, V, i, "uploadedImageUrls", "urlA",
                                  V[i].uploadedImageUrls \o V[i].uploadedImageUrls)
              IN Create_uploadLoop(r.S, r.V, i + 1)
         ELSE [S |-> S, V |-> V, i |-> i, files |-> Map(V[i].images, FileOfItem)]

\* handleSubmit runs on from index i0 until it awaits the network: the next
\* upload or, the loop done, the POST of the payload.
Create_resume(r, i0, c, t) ==
    LET m == Create_uploadLoop(r.S, r.V, i0)
        skipped == [k \in 1..(m.i - i0) |->
                       Returned("skipped", r.V[i0 + k - 1].uploadedImageUrls)]
    IN /\ variants' = m.S
       /\ cl' = [c EXCEPT !.V = m.V, !.i = m.i, !.ret = c.ret \o skipped]
       /\ toast' = t
       /\ IF m.i <= Len(m.V)
          THEN /\ pc' = "upload"
               /\ net' = UploadReq(m.files)
               /\ payload' = payload
          ELSE /\ pc' = "api"
               /\ net' = ApiReq
               /\ payload' = Create_payload(c, m.V)

\* handleSubmit without setSubmitting(true).
Create_handleSubmit_flagNotSet ==
    /\ mode = "create" /\ view = "form" /\ SubmitControlEnabled
    /\ Create_formValid
    /\ IF Blank(name) \/ Blank(description)
       THEN Rejected("Champs obligatoires manquants")
       ELSE IF Len(variants) = 0
       THEN Rejected("TypeError")
       ELSE LET S1 == IF ~SomeDefault(variants)
                      THEN [variants EXCEPT ![1].isDefault = TRUE]
                      ELSE variants
                c == [NoCl EXCEPT !.name = name, !.description = description,
                                  !.slug = slug, !.specs = specs]
            IN /\ submitting' = submitting
               /\ nSubmits' = nSubmits + 1
               /\ nEdits' = 0
               /\ Create_resume([S |-> Capture(S1), V |-> Capture(S1)], 1, c, NoToast)
               /\ UNCHANGED <<mode, view, name, description, globalImages, globalStock,
                              nPicks, slug, specs>>

Create_handleSubmit ==
    /\ mode = "create" /\ view = "form" /\ SubmitControlEnabled
    /\ Create_formValid
    /\ IF Blank(name) \/ Blank(description)
       THEN Rejected("Champs obligatoires manquants")
       ELSE IF Len(variants) = 0
       THEN \* variants[0].isDefault = true throws on an empty array
            Rejected("TypeError")
       ELSE LET S1 == IF ~SomeDefault(variants)
                      THEN [variants EXCEPT ![1].isDefault = TRUE]
                      ELSE variants
                c == [NoCl EXCEPT !.name = name, !.description = description,
                                  !.slug = slug, !.specs = specs]
            IN /\ submitting' = TRUE
               /\ nSubmits' = nSubmits + 1
               /\ nEdits' = 0
               /\ Create_resume([S |-> Capture(S1), V |-> Capture(S1)], 1, c, NoToast)
               /\ UNCHANGED <<mode, view, name, description, globalImages, globalStock,
                              nPicks, slug, specs>>

\* The upload issued by uploadVariantImages(cl.i) answers.
\* uploadVariantImages whose catch keeps the URLs of the files it sent.
Create_uploadReturn_failureKeepsUrls(ok) ==
    /\ mode = "create" /\ pc = "upload"
    /\ LET i == cl.i
           newUrls == Map(net.files, UrlOf)
           r1 == ClPush(variants, cl.V, i, "uploadedImageUrls", "urlA", newUrls)
           r2 == [S |-> r1.V, V |-> r1.V]
           r3 == ClReassign(r2.S, r2.V, i, "uploadedImageUrls", "urlA",
                            r2.V[i].uploadedImageUrls \o newUrls)
       IN Create_resume(r3, i + 1,
                        [cl EXCEPT !.ret = Append(@, Returned(IF ok THEN "ok" ELSE "failed",
                                                              newUrls))],
                        IF ok THEN NoToast ELSE "Erreur upload images variante")
    /\ UNCHANGED <<mode, view, name, description, globalImages, globalStock,
                   submitting, nSubmits, nEdits, nPicks, slug, specs>>

Create_uploadReturn(ok) ==
    /\ mode = "create" /\ pc = "upload"
    /\ LET i == cl.i
           newUrls == Map(net.files, UrlOf)
       IN IF ok
          THEN LET r1 == ClPush(variants, cl.V, i, "uploadedImageUrls", "urlA", newUrls)
                   \* setVariants([...variants]) puts the captured objects back
                   r2 == [S |-> r1.V, V |-> r1.V]
                   r3 == ClReassign(r2.S, r2.V, i, "uploadedImageUrls", "urlA",
                                    r2.V[i].uploadedImageUrls \o newUrls)
               IN Create_resume(r3, i + 1,
                                [cl EXCEPT !.ret = Append(@, Returned("ok", newUrls))],
                                NoToast)
          ELSE LET r == ClReassign(variants, cl.V, i, "uploadedImageUrls", "urlA",
                                   cl.V[i].uploadedImageUrls)
               IN Create_resume(r, i + 1,
                                [cl EXCEPT !.ret = Append(@, Returned("failed", <<>>))],
                                "Erreur upload images variante")
    /\ UNCHANGED <<mode, view, name, description, globalImages, globalStock,
                   submitting, nSubmits, nEdits, nPicks, slug, specs>>

\* The POST /products answers.
Create_apiReturn(ok, message) ==
    /\ mode = "create"
    /\ ApiReturn(ok, "Produit cree avec succes", message, "Erreur creation produit")

\* ================================== ProductEdit, uploadedImageUrls version
\* loadedVariants of fetchProduct
EditB_loadVariant(v) ==
    [id |-> v.id, name |-> v.name, sku |-> v.sku,
     price |-> (IF v.price = <<>> THEN 0 ELSE v.price[1]),
     stock |-> v.stock, isDefault |-> v.isDefault,
     images |-> Map(v.images, PreviewItem), uploadedImageUrls |-> v.images,
     obj |-> 0, imgA |-> 0, urlA |-> 0]

\* GET /products/:id answers with the record p: the setters, then the effect
\* on [name, slug].
EditB_fetchProduct(p) ==
    /\ mode = "editB" /\ pc = "loading"
    /\ name' = p.name
    /\ description' = p.description
    /\ variants' = (IF Len(p.variants) = 0 THEN <<NewVariant(TRUE)>>
                    ELSE Map(p.variants, EditB_loadVariant))
    /\ view' = "form"
    /\ pc' = "idle"
    /\ net' = NoNet
    /\ slug' = EditB_slugEffect(p.name, p.slug)
    /\ toast' = NoToast
    /\ UNCHANGED <<mode, globalImages, globalStock, submitting, cl, payload,
                   nSubmits, nEdits, nPicks, specs>>

\* The slug input of this version is editable: onChange={(e) =>
\* setSlug(e.target.value)}, then the effect on [name, slug].
EditB_setSlug(s) ==
    /\ mode = "editB" /\ CanEdit
    /\ slug' = EditB_slugEffect(name, s)
    /\ toast' = NoToast
    /\ nEdits' = EditCount
    /\ UNCHANGED <<mode, view, pc, name, description, variants, globalImages,
                   globalStock, submitting, cl, net, payload, nSubmits, nPicks, specs>>

\* GET /products/:id fails: toast and navigate('/products').
EditB_fetchFailed ==
    /\ mode = "editB" /\ pc = "loading"
    /\ view' = "left"
    /\ pc' = "done"
    /\ net' = NoNet
    /\ toast' = "Impossible de charger le produit"
    /\ UNCHANGED <<mode, name, description, variants, globalImages, globalStock,
                   submitting, cl, payload, nSubmits, nEdits, nPicks, slug, specs>>

EditB_addVariant ==
    /\ mode = "editB" /\ CanEdit
    /\ EditVariants([S |-> Append(variants, NewVariant(FALSE)), V |-> cl.V], NoToast, 0)

EditB_removeVariant(index) ==
    /\ mode = "editB" /\ CanEdit
    /\ index \in 1..Len(variants)
    /\ IF Len(variants) = 1
       THEN OnlyToast("Au moins une variante est obligatoire")
       ELSE LET updated == RemoveAt(variants, index)
            IN IF ~SomeDefault(updated)
               THEN EditVariants(SetInPlace(updated, cl.V, 1, "isDefault", TRUE),
                                 NoToast, 0)
               ELSE EditVariants([S |-> updated, V |-> cl.V], NoToast, 0)

EditB_updateVariant(index, field, value) ==
    /\ mode = "editB" /\ CanEdit
    /\ index \in 1..Len(variants)
    /\ IF field = "isDefault" /\ value = TRUE
       THEN EditVariants(ForEachSetDefault(variants, cl.V, index), NoToast, 0)
       ELSE EditVariants(SpreadUpdate(variants, cl.V, index, field, value), NoToast, 0)

EditB_handleVariantImageChange(variantIndex, newFiles) ==
    /\ mode = "editB" /\ CanEdit
    /\ variantIndex \in 1..Len(variants)
    /\ IF Len(variants[variantIndex].images) + Len(newFiles) > MaxImages
       THEN OnlyToast("Maximum 5 images par variante")
       ELSE EditVariants(
                PushInPlace(variants, cl.V, variantIndex, "images", "imgA",
                            [j \in 1..Len(newFiles) |-> NewItem(newFiles[j], TRUE)]),
                NoToast, Len(newFiles))

\* The isNew test reads the filtered array: the item that moved into the
\* removed position, or undefined past its end.
EditB_removeVariantImage(variantIndex, imageIndex) ==
    /\ mode = "editB" /\ CanEdit
    /\ variantIndex \in 1..Len(variants)
    /\ imageIndex \in 1..Len(variants[variantIndex].images)
    /\ LET v == variants[variantIndex]
           images == RemoveAt(v.images, imageIndex)
           r1 == Reassign(variants, cl.V, variantIndex, "images", "imgA", images)
           isNew == imageIndex <= Len(images) /\ images[imageIndex].isNew
           urls == IF imageIndex <= Len(v.uploadedImageUrls)
                   THEN RemoveAt(v.uploadedImageUrls, imageIndex)
                   ELSE v.uploadedImageUrls
       IN IF ~isNew
          THEN EditVariants(Reassign(r1.S, r1.V, variantIndex, "uploadedImageUrls",
                                     "urlA", urls), NoToast, 0)
          ELSE EditVariants(r1, NoToast, 0)

EditB_formValid ==
    /\ name # <<>> /\ description # <<>>
    /\ \A j \in 1..Len(variants) :
          /\ variants[j].name # <<>> /\ variants[j].sku # <<>>
          /\ variants[j].price >= 0 /\ variants[j].stock >= 0

\* img.isNew && img.file
IsNewFile(img) == img.isNew /\ HasFile(img)

EditB_cleanVariant(v) ==
    [id |-> v.id, name |-> Trim(v.name), sku |-> Trim(v.sku), price |-> v.price,
     stock |-> v.stock, images |-> v.uploadedImageUrls, isDefault |-> v.isDefault]

EditB_payload(c, V) ==
    [sent |-> TRUE, name |-> Trim(c.name), description |-> Trim(c.description),
     images |-> <<>>, hasVariants |-> TRUE, variants |-> Map(V, EditB_cleanVariant),
     basePrice |-> <<>>, stock |-> <<>>, slug |-> Trim(c.slug), specs |-> <<>>]

RECURSIVE EditB_uploadLoop(_, _, _)
\* The loop of handleSubmit from index i up to its next network call; with
\* nothing new uploadNewVariantImages returns [] and the URLs are re-spread.
EditB_uploadLoop(S, V, i) ==
    IF i > Len(V) THEN [S |-> S, V |-> V, i |-> i, files |-> <<>>]
    ELSE IF Filter(V[i].images, IsNewFile) = <<>>
         THEN LET r == ClReassign(S, V, i, "uploadedImageUrls", "urlA",
                                  V[i].uploadedImageUrls)
              IN EditB_uploadLoop(r.S, r.V, i + 1)
         ELSE [S |-> S, V |-> V, i |-> i,
               files |-> Map(Filter(V[i].images, IsNewFile), FileOfItem)]

EditB_resume(r, i0, c, t) ==
    LET m == EditB_uploadLoop(r.S, r.V, i0)
        skipped == [k \in 1..(m.i - i0) |-> Returned("skipped", <<>>)]
    IN /\ variants' = m.S
       /\ cl' = [c EXCEPT !.V = m.V, !.i = m.i, !.ret = c.ret \o skipped]
       /\ toast' = t
       /\ IF m.i <= Len(m.V)
          THEN /\ pc' = "upload"
               /\ net' = UploadReq(m.files)
               /\ payload' = payload
          ELSE /\ pc' = "api"
               /\ net' = ApiReq
               /\ payload' = EditB_payload(c, m.V)

EditB_handleSubmit ==
    /\ mode = "editB" /\ view = "form" /\ SubmitControlEnabled
    /\ EditB_formValid
    /\ IF Blank(name) \/ Blank(description)
       THEN Rejected("Champs obligatoires manquants")
       ELSE IF Len(variants) = 0
       THEN \* variants[0].isDefault = true throws on an empty array
            Rejected("TypeError")
       ELSE LET S1 == IF ~SomeDefault(variants)
                      THEN [variants EXCEPT ![1].isDefault = TRUE]
                      ELSE variants
                c == [NoCl EXCEPT !.name = name, !.description = description,
                                  !.slug = slug, !.specs = specs]
            IN /\ submitting' = TRUE
               /\ nSubmits' = nSubmits + 1
               /\ nEdits' = 0
               /\ EditB_resume([S |-> Capture(S1), V |-> Capture(S1)], 1, c, NoToast)
               /\ UNCHANGED <<mode, view, name, description, globalImages, globalStock,
                              nPicks, slug, specs>>

\* The upload issued by uploadNewVariantImages(cl.i) answers.
\* uploadNewVariantImages without its catch: the rejection reaches the catch of
\* handleSubmit, which ends the submission.
EditB_uploadReturn_uncaught(ok) ==
    /\ mode = "editB" /\ pc = "upload"
    /\ IF ok
       THEN LET i == cl.i
                newUrls == Map(net.files, UrlOf)
                r == ClReassign(variants, cl.V, i, "uploadedImageUrls", "urlA",
                                cl.V[i].uploadedImageUrls \o newUrls)
            IN /\ EditB_resume(r, i + 1,
                               [cl EXCEPT !.ret = Append(@, Returned("ok", newUrls))],
                               NoToast)
               /\ UNCHANGED <<submitting, nEdits>>
       ELSE /\ pc' = "idle" /\ net' = NoNet /\ cl' = NoCl
            /\ variants' = ClearRefs(variants)
            /\ nEdits' = 0 /\ submitting' = FALSE
            /\ toast' = "Erreur lors de la modification"
            /\ payload' = payload
    /\ UNCHANGED <<mode, view, name, description, globalImages, globalStock,
                   nSubmits, nPicks, slug, specs>>

EditB_uploadReturn(ok) ==
    /\ mode = "editB" /\ pc = "upload"
    /\ LET i == cl.i
           newUrls == IF ok THEN Map(net.files, UrlOf) ELSE <<>>
           r == ClReassign(variants, cl.V, i, "uploadedImageUrls", "urlA",
                           cl.V[i].uploadedImageUrls \o newUrls)
       IN EditB_resume(r, i + 1,
                       [cl EXCEPT !.ret = Append(@, Returned(IF ok THEN "ok" ELSE "failed",
                                                             newUrls))],
                       IF ok THEN NoToast ELSE "Erreur upload images pour une variante")
    /\ UNCHANGED <<mode, view, name, description, globalImages, globalStock,
                   submitting, nSubmits, nEdits, nPicks, slug, specs>>

\* The PUT /products/:id answers.
EditB_apiReturn(ok, message) ==
    /\ mode = "editB"
    /\ ApiReturn(ok, "Produit modifie avec succes", message,
                 "Erreur lors de la modification")

\* =========================================== ProductEdit, ImageItem version
\* loadedVariants of fetchData: price ?? (priceDifference ?? 0)
EditA_loadVariant(v) ==
    [id |-> v.id, name |-> v.name, sku |-> v.sku,
     price |-> (IF v.price # <<>> THEN v.price[1]
                ELSE IF v.priceDifference # <<>> THEN v.priceDifference[1] ELSE 0),
     stock |-> v.stock, isDefault |-> v.isDefault,
     images |-> Map(v.images, UrlItem), uploadedImageUrls |-> <<>>,
     obj |-> 0, imgA |-> 0, urlA |-> 0]

\* GET /products/:id answers with the record p: the setters, then the effect
\* on [name] when the name has changed. specs holds the string-valued entries
\* of p.specs; id tells the entry objects apart.
EditA_fetchData(p) ==
    /\ mode = "editA" /\ pc = "loading"
    /\ name' = p.name
    /\ description' = p.description
    /\ globalImages' = Map(p.images, UrlItem)
    /\ globalStock' = p.stock
    /\ LET loadedVariants == Map(p.variants, EditA_loadVariant)
       IN variants' = (IF Len(loadedVariants) > 0 /\ ~SomeDefault(loadedVariants)
                       THEN [loadedVariants EXCEPT ![1].isDefault = TRUE]
                       ELSE loadedVariants)
    /\ view' = "form"
    /\ pc' = "idle"
    /\ net' = NoNet
    /\ slug' = (IF p.name # name THEN EditA_slugEffect(p.name) ELSE p.slug)
    /\ specs' = [j \in 1..Len(p.specs) |->
                    [key |-> p.specs[j].key, value |-> p.specs[j].value, id |-> j]]
    /\ toast' = NoToast
    /\ UNCHANGED <<mode, submitting, cl, payload, nSubmits, nEdits, nPicks>>

\* GET /products/:id fails: toast, and the empty form is shown.
EditA_fetchFailed ==
    /\ mode = "editA" /\ pc = "loading"
    /\ view' = "form"
    /\ pc' = "idle"
    /\ net' = NoNet
    /\ toast' = "Impossible de charger le produit"
    /\ UNCHANGED <<mode, name, description, variants, globalImages, globalStock,
                   submitting, cl, payload, nSubmits, nEdits, nPicks, slug, specs>>

\* variants.find(v => v.isDefault) || variants[0], for a non-empty vs
defaultVariant(vs) ==
    IF SomeDefault(vs)
    THEN vs[CHOOSE j \in 1..Len(vs) :
                vs[j].isDefault /\ \A h \in 1..(j - 1) : ~vs[h].isDefault]
    ELSE vs[1]

\* defaultVariant?.price ?? null
calculatedBasePrice(vs) == IF Len(vs) = 0 THEN <<>> ELSE <<defaultVariant(vs).price>>

\* The "Ajouter images" button is disabled by uploading, submitting and a full set.
EditA_handleGlobalImageChange(newFiles) ==
    /\ mode = "editA" /\ CanEdit
    /\ ~submitting /\ Len(globalImages) < MaxImages
    /\ newFiles # <<>>
    /\ IF Len(globalImages) + Len(newFiles) > MaxImages
       THEN OnlyToast("Maximum 5 images globales")
       ELSE /\ globalImages' =
                  globalImages \o [j \in 1..Len(newFiles) |-> NewItem(newFiles[j], FALSE)]
            /\ toast' = NoToast
            /\ nEdits' = EditCount
            /\ nPicks' = nPicks + Len(newFiles)
            /\ UNCHANGED <<mode, view, pc, name, description, variants, globalStock,
                           submitting, cl, net, payload, nSubmits, slug, specs>>

EditA_removeGlobalImage(index) ==
    /\ mode = "editA" /\ CanEdit
    /\ index \in 1..Len(globalImages)
    /\ globalImages' = RemoveAt(globalImages, index)
    /\ toast' = NoToast
    /\ nEdits' = EditCount
    /\ UNCHANGED <<mode, view, pc, name, description, variants, globalStock,
                   submitting, cl, net, payload, nSubmits, nPicks, slug, specs>>

\* The specs handlers leave everything but the list alone.
EditSpecs(S, c) ==
    /\ mode = "editA" /\ CanEdit
    /\ specs' = S
    /\ cl' = c
    /\ toast' = NoToast
    /\ nEdits' = EditCount
    /\ UNCHANGED <<mode, view, pc, name, description, variants, globalImages,
                   globalStock, submitting, net, payload, nSubmits, nPicks, slug>>

\* addSpec: setSpecs(prev => [...prev, { key: '', value: '' }]); the new object
\* is none of those a running handleSubmit holds.
EditA_addSpec ==
    LET used == {specs[j].id : j \in 1..Len(specs)} \cup
                {cl.specs[j].id : j \in 1..Len(cl.specs)}
        fresh == CHOOSE n \in 1..(Cardinality(used) + 1) : n \notin used
    IN EditSpecs(Append(specs, [key |-> <<>>, value |-> <<>>, id |-> fresh]), cl)

\* removeSpec: setSpecs(prev => prev.filter((_, i) => i !== idx))
EditA_removeSpec(idx) ==
    /\ idx \in 1..Len(specs)
    /\ EditSpecs(RemoveAt(specs, idx), cl)

\* updateSpec: const next = [...prev]; next[idx][field] = val: the entry object
\* is written in place, so the list a running handleSubmit holds sees it too.
EditA_updateSpec(idx, field, val) ==
    /\ idx \in 1..Len(specs)
    /\ EditSpecs([specs EXCEPT ![idx][field] = val],
                 [cl EXCEPT !.specs = [j \in 1..Len(@) |->
                     IF @[j].id = specs[idx].id THEN [@[j] EXCEPT ![field] = val]
                     ELSE @[j]]])

\* The stock input is rendered only while there is no variant.
EditA_setGlobalStock(value) ==
    /\ mode = "editA" /\ CanEdit
    /\ Len(variants) = 0
    /\ globalStock' = value
    /\ toast' = NoToast
    /\ nEdits' = EditCount
    /\ UNCHANGED <<mode, view, pc, name, description, variants, globalImages,
                   submitting, cl, net, payload, nSubmits, nPicks, slug, specs>>

EditA_addVariant_neverDefault ==
    /\ mode = "editA" /\ CanEdit
    /\ EditVariants([S |-> Append(variants, NewVariant(FALSE)), V |-> cl.V], NoToast, 0)

\* addVariant: isFirst = variants.length === 0
EditA_addVariant ==
    /\ mode = "editA" /\ CanEdit
    /\ EditVariants([S |-> Append(variants, NewVariant(Len(variants) = 0)), V |-> cl.V],
                    NoToast, 0)

EditA_removeVariant(index) ==
    /\ mode = "editA" /\ CanEdit
    /\ index \in 1..Len(variants)
    /\ LET removingDefault == variants[index].isDefault
           next == RemoveAt(variants, index)
       IN IF removingDefault /\ Len(next) > 0
          THEN EditVariants(SpreadUpdate(next, cl.V, 1, "isDefault", TRUE), NoToast, 0)
          ELSE EditVariants([S |-> next, V |-> cl.V], NoToast, 0)

EditA_updateVariant(index, field, value) ==
    /\ mode = "editA" /\ CanEdit
    /\ index \in 1..Len(variants)
    /\ EditVariants(SpreadUpdate(variants, cl.V, index, field, value), NoToast, 0)

EditA_handleVariantImageChange(vIdx, newFiles) ==
    /\ mode = "editA" /\ CanEdit
    /\ vIdx \in 1..Len(variants)
    /\ newFiles # <<>>
    /\ IF Len(variants[vIdx].images) + Len(newFiles) > MaxImages
       THEN OnlyToast("Maximum 5 images par variante")
       ELSE EditVariants(
                PushInPlace(variants, cl.V, vIdx, "images", "imgA",
                            [j \in 1..Len(newFiles) |-> NewItem(newFiles[j], FALSE)]),
                NoToast, Len(newFiles))

EditA_removeVariantImage(vIdx, imgIdx) ==
    /\ mode = "editA" /\ CanEdit
    /\ vIdx \in 1..Len(variants)
    /\ imgIdx \in 1..Len(variants[vIdx].images)
    /\ EditVariants(Reassign(variants, cl.V, vIdx, "images", "imgA",
                             RemoveAt(variants[vIdx].images, imgIdx)), NoToast, 0)

\* `required` on name and description, `min={0}` on price, stock and global stock
EditA_formValid ==
    /\ name # <<>> /\ description # <<>>
    /\ \A j \in 1..Len(variants) : variants[j].price >= 0 /\ variants[j].stock >= 0
    /\ (Len(variants) = 0 /\ globalStock # <<>>) => globalStock[1] >= 0

\* imgs.map(img => img.url).filter(Boolean)
UrlsOf(imgs) == Map(Filter(imgs, HasUrl), UrlOfItem)

EditA_cleanVariant(v) ==
    [id |-> v.id, name |-> Trim(v.name), sku |-> Trim(v.sku), price |-> v.price,
     stock |-> v.stock, images |-> UrlsOf(v.images), isDefault |-> v.isDefault]

\* specsObj[key] = value on a plain object: an own property is created or
\* overwritten, except for the key __proto__, which names the accessor of
\* Object.prototype: its setter ignores a string and no property is created.
\*
\* const specsObj = {}; specs.forEach(s => { if (s.key.trim() && s.value.trim())
\* specsObj[s.key.trim()] = s.value.trim() }).  An object is a function from
\* its own keys to their values.
RECURSIVE specsObj(_)
specsObj(S) ==
    IF S = <<>> THEN <<>>
    ELSE LET ProtoKey == <<"_", "_", "p", "r", "o", "t", "o", "_", "_">>
             o == specsObj(SubSeq(S, 1, Len(S) - 1))
             k == Trim(S[Len(S)].key)
             v == Trim(S[Len(S)].value)
         IN IF k # <<>> /\ v # <<>> /\ k # ProtoKey
            THEN [x \in DOMAIN o \cup {k} |-> IF x = k THEN v ELSE o[x]]
            ELSE o

\* The payload of api.put; name, slug and description are those of the render
\* handleSubmit was created in.
EditA_payload(c, V) ==
    [sent |-> TRUE, name |-> Trim(c.name), description |-> Trim(c.description),
     images |-> c.finalGlobalUrls,
     hasVariants |-> c.hasVariants,
     variants |-> (IF c.hasVariants THEN Map(V, EditA_cleanVariant) ELSE <<>>),
     basePrice |-> (IF c.hasVariants THEN c.basePrice ELSE <<0>>),
     stock |-> (IF c.hasVariants THEN <<>> ELSE c.globalStock),
     slug |-> Trim(c.slug),
     specs |-> (IF DOMAIN specsObj(c.specs) # {} THEN <<specsObj(c.specs)>> ELSE <<>>)]

RECURSIVE EditA_uploadLoop(_, _)
\* The index, from i on, of the next variant whose uploadVariantImages has
\* something to upload; Len(V) + 1 when there is none.
\* handleSubmit going to its call without awaiting any upload.
EditA_uploadLoop_noUploads(V, i) == Len(V) + 1

\* The loop without the early return of uploadVariantImages: a request for
\* every variant, pending files or not.
EditA_uploadLoop_everyVariant(V, i) == i

EditA_uploadLoop(V, i) ==
    IF i > Len(V) THEN i
    ELSE IF Filter(V[i].images, HasFile) = <<>> THEN EditA_uploadLoop(V, i + 1)
    ELSE i

\* handleSubmit runs on from index i0 of its loop until it awaits the network.
EditA_resume(S, V, i0, c, t) ==
    LET i == EditA_uploadLoop(V, i0)
        skipped == [k \in 1..(i - i0) |->
                       Returned("skipped", UrlsOf(V[i0 + k - 1].images))]
    IN /\ variants' = S
       /\ cl' = [c EXCEPT !.V = V, !.i = i, !.ret = c.ret \o skipped]
       /\ toast' = t
       /\ IF i <= Len(V)
          THEN /\ pc' = "upload"
               /\ net' = UploadReq(Map(Filter(V[i].images, HasFile), FileOfItem))
               /\ payload' = payload
          ELSE /\ pc' = "api"
               /\ net' = ApiReq
               /\ payload' = EditA_payload(c, V)

\* The validation without the checks of the branch without variants.
EditA_validate_simpleUnchecked ==
    IF Blank(name) \/ Blank(description) THEN "Nom et description obligatoires"
    ELSE IF Len(variants) > 0
    THEN IF ~SomeDefault(variants) THEN "Selectionnez une variante par defaut"
         ELSE IF ~EveryVariantFilled(variants)
         THEN "Chaque variante doit avoir nom, SKU et prix >= 0"
         ELSE IF calculatedBasePrice(variants) = <<>> \/ calculatedBasePrice(variants)[1] <= 0
         THEN "Prix invalide"
         ELSE NoToast
    ELSE NoToast

\* The validation of handleSubmit: the toast of the first failed check, or
\* NoToast when all pass.
EditA_validate ==
    IF Blank(name) \/ Blank(description) THEN "Nom et description obligatoires"
    ELSE IF Len(variants) > 0
    THEN IF ~SomeDefault(variants) THEN "Selectionnez une variante par defaut"
         ELSE IF ~EveryVariantFilled(variants)
         THEN "Chaque variante doit avoir nom, SKU et prix >= 0"
         ELSE IF calculatedBasePrice(variants) = <<>> \/ calculatedBasePrice(variants)[1] <= 0
         THEN "Prix invalide"
         ELSE NoToast
    ELSE IF globalStock = <<>> \/ globalStock[1] < 0 THEN "Stock global requis et >= 0"
         ELSE IF Len(globalImages) = 0
         THEN "Au moins une image globale requise sans variantes"
         ELSE NoToast

\* handleSubmit starting the upload of the variants without awaiting
\* uploadGlobalImages.
EditA_handleSubmit_globalNotAwaited ==
    /\ mode = "editA" /\ view = "form" /\ SubmitControlEnabled
    /\ EditA_formValid
    /\ IF EditA_validate # NoToast
       THEN Rejected(EditA_validate)
       ELSE LET c == [NoCl EXCEPT !.name = name, !.description = description,
                                  !.slug = slug, !.specs = specs,
                                  !.G = globalImages, !.globalStock = globalStock,
                                  !.hasVariants = Len(variants) > 0,
                                  !.basePrice = calculatedBasePrice(variants)]
                toUpload == Filter(globalImages, HasFile)
            IN /\ submitting' = TRUE
               /\ nSubmits' = nSubmits + 1
               /\ nEdits' = 0
               /\ EditA_resume(Capture(variants), Capture(variants), 1,
                               [c EXCEPT !.finalGlobalUrls = UrlsOf(globalImages),
                                         !.gOut = IF toUpload = <<>> THEN "skipped"
                                                  ELSE "pending"],
                               NoToast)
               /\ UNCHANGED <<mode, view, name, description, globalImages, globalStock,
                              nPicks, slug, specs>>

EditA_handleSubmit ==
    /\ mode = "editA" /\ view = "form" /\ SubmitControlEnabled
    /\ EditA_formValid
    /\ IF EditA_validate # NoToast
       THEN Rejected(EditA_validate)
       ELSE LET c == [NoCl EXCEPT !.name = name, !.description = description,
                                  !.slug = slug, !.specs = specs,
                                  !.G = globalImages, !.globalStock = globalStock,
                                  !.hasVariants = Len(variants) > 0,
                                  !.basePrice = calculatedBasePrice(variants)]
                toUpload == Filter(globalImages, HasFile)
            IN /\ submitting' = TRUE
               /\ nSubmits' = nSubmits + 1
               /\ nEdits' = 0
               /\ IF toUpload = <<>>
                  THEN EditA_resume(Capture(variants), Capture(variants), 1,
                                    [c EXCEPT !.finalGlobalUrls = UrlsOf(globalImages)],
                                    NoToast)
                  ELSE /\ variants' = Capture(variants)
                       /\ cl' = [c EXCEPT !.V = Capture(variants), !.gOut = "pending"]
                       /\ toast' = NoToast
                       /\ pc' = "uploadG"
                       /\ net' = UploadReq(Map(toUpload, FileOfItem))
                       /\ payload' = payload
               /\ UNCHANGED <<mode, view, name, description, globalImages, globalStock,
                              nPicks, slug, specs>>

\* The upload issued by uploadGlobalImages answers.
EditA_globalUploadReturn(ok) ==
    /\ mode = "editA" /\ pc = "uploadG"
    /\ LET newUrls == Map(net.files, UrlOf)
           existingUrls == UrlsOf(Filter(cl.G, LAMBDA img : ~HasFile(img)))
           finalUrls == existingUrls \o newUrls
       IN IF ok
          THEN /\ globalImages' = Map(finalUrls, UrlItem)
               /\ EditA_resume(variants, cl.V, 1,
                               [cl EXCEPT !.finalGlobalUrls = finalUrls, !.gOut = "ok"],
                               NoToast)
          ELSE /\ globalImages' = globalImages
               /\ EditA_resume(variants, cl.V, 1,
                               [cl EXCEPT !.finalGlobalUrls = UrlsOf(cl.G),
                                          !.gOut = "failed"],
                               "Echec upload images globales")
    /\ UNCHANGED <<mode, view, name, description, globalStock, submitting,
                   nSubmits, nEdits, nPicks, slug, specs>>

\* uploadVariantImages without its setVariants.
EditA_uploadReturn_stateNotRefreshed(ok) ==
    /\ mode = "editA" /\ pc = "upload"
    /\ LET i == cl.i
           newUrls == Map(net.files, UrlOf)
           existing == UrlsOf(Filter(cl.V[i].images, LAMBDA img : ~HasFile(img)))
           finalUrls == existing \o newUrls
       IN IF ok
          THEN /\ EditA_resume(variants, cl.V, i + 1,
                               [cl EXCEPT !.ret = Append(@, Returned("ok", finalUrls))],
                               NoToast)
               /\ view' = view
          ELSE /\ EditA_resume(variants, cl.V, i + 1,
                               [cl EXCEPT !.ret = Append(@, Returned("failed",
                                                         UrlsOf(cl.V[i].images)))],
                               "Echec upload images variante")
               /\ view' = view
    /\ UNCHANGED <<mode, name, description, globalImages, globalStock, submitting,
                   nSubmits, nEdits, nPicks, slug, specs>>

\* The upload issued by uploadVariantImages(cl.i) answers.  Its setVariants
\* writes to the object now at index cl.i of the state; with no such index
\* the updater throws and the render fails.
EditA_uploadReturn(ok) ==
    /\ mode = "editA" /\ pc = "upload"
    /\ LET i == cl.i
           newUrls == Map(net.files, UrlOf)
           existing == UrlsOf(Filter(cl.V[i].images, LAMBDA img : ~HasFile(img)))
           finalUrls == existing \o newUrls
       IN IF ok /\ i <= Len(variants)
          THEN LET r == Reassign(variants, cl.V, i, "images", "imgA",
                                 Map(finalUrls, UrlItem))
               IN /\ EditA_resume(r.S, r.V, i + 1,
                                  [cl EXCEPT !.ret = Append(@, Returned("ok", finalUrls))],
                                  NoToast)
                  /\ view' = view
          ELSE IF ok
          THEN /\ EditA_resume(variants, cl.V, i + 1,
                               [cl EXCEPT !.ret = Append(@, Returned("ok", finalUrls))],
                               NoToast)
               /\ view' = "crashed"
          ELSE /\ EditA_resume(variants, cl.V, i + 1,
                               [cl EXCEPT !.ret = Append(@, Returned("failed",
                                                         UrlsOf(cl.V[i].images)))],
                               "Echec upload images variante")
               /\ view' = view
    /\ UNCHANGED <<mode, name, description, globalImages, globalStock, submitting,
                   nSubmits, nEdits, nPicks, slug, specs>>

\* The PUT /products/:id answers.
EditA_apiReturn(ok, message) ==
    /\ mode = "editA"
    /\ ApiReturn(ok, "Produit mis a jour avec succes", message,
                 "Erreur lors de la sauvegarde")

\* ================================================================== inputs
\* What GET /products/:id may answer: a legacy product without variants, a
\* product with two variants of which the second still carries the legacy
\* priceDifference, and a product whose only variant is not marked default.
FetchedVariant(id, price, priceDifference, isDefault, images) ==
    [id |-> id, name |-> <<"A">>, sku |-> <<"S">>, price |-> price,
     priceDifference |-> priceDifference, stock |-> 1, isDefault |-> isDefault,
     images |-> images]

FetchedRecords ==
    { [name |-> <<"P">>, description |-> <<"D">>, stock |-> <<3>>, images |-> <<"e1">>,
       variants |-> <<>>, slug |-> <<"p">>,
       specs |-> <<[key |-> <<"k">>, value |-> <<"v">>]>>],
      [name |-> <<"P">>, description |-> <<"D">>, stock |-> <<>>, images |-> <<>>,
       variants |-> <<FetchedVariant("v1", <<5>>, <<>>, TRUE, <<"e1">>),
                      FetchedVariant("v2", <<>>, <<2>>, FALSE, <<>>)>>,
       slug |-> <<"p">>, specs |-> <<[key |-> <<"k">>, value |-> <<"v">>]>>],
      [name |-> <<"P">>, description |-> <<"D">>, stock |-> <<>>, images |-> <<>>,
       variants |-> <<FetchedVariant("v1", <<5>>, <<>>, FALSE, <<"e1">>)>>,
       slug |-> <<"p">>, specs |-> <<[key |-> <<"k">>, value |-> <<"v">>]>>] }

\* A variant of ProductCreate once the user has typed its name, SKU and price.
FilledVariant(isDefault) ==
    [NewVariant(isDefault) EXCEPT !.name = <<"A">>, !.sku = <<"S">>, !.price = 5]

\* ==================================================================== Init
NothingRunning ==
    /\ submitting = FALSE /\ cl = NoCl /\ payload = NoPayload /\ toast = NoToast
    /\ nSubmits = 0 /\ nEdits = 0 /\ nPicks = 0
    /\ globalImages = <<>> /\ globalStock = <<>>
    /\ slug = Create_slugEffect(name) /\ specs = <<>>

\* ProductCreate as mounted.
InitCreate ==
    /\ mode = "create" /\ view = "form" /\ pc = "idle" /\ net = NoNet
    /\ name = <<>> /\ description = <<>>
    /\ variants = <<NewVariant(TRUE)>>
    /\ NothingRunning

\* ProductEdit as mounted: the spinner, and the fetch in flight.
InitEdit ==
    /\ mode \in {"editA", "editB"} /\ view = "spinner" /\ pc = "loading"
    /\ net = FetchReq
    /\ name = <<>> /\ description = <<>>
    /\ variants = <<>>
    /\ NothingRunning

\* ProductCreate after the user has filled in the product and one or two
\* variants (FilledDraftReachable shows these drafts are reached from InitCreate).
InitCreateFilled ==
    /\ mode = "create" /\ view = "form" /\ pc = "idle" /\ net = NoNet
    /\ name = <<"P">> /\ description = <<"D">>
    /\ variants \in {<<FilledVariant(TRUE)>>, <<FilledVariant(TRUE), FilledVariant(FALSE)>>}
    /\ NothingRunning

Init == InitCreateFilled \/ InitEdit

InitForm == InitCreate \/ InitEdit

\* ==================================================================== Next
\* At most maxI edits are explored while a submission is in flight.
Budget(maxI) == pc = "idle" \/ nEdits < maxI

ApiMessages == {Undef, "rejected by the server"}

\* ---- Spec: the submission flow, with files and edits made in flight
FlowUpdates == {<<"isDefault", TRUE>>, <<"isDefault", FALSE>>}
FlowBatches == {<<"f1">>, <<"f1", "f2">>}

Next ==
    \/ \E p \in FetchedRecords : EditA_fetchData(p)
    \/ EditA_fetchFailed
    \/ \E p \in FetchedRecords : EditB_fetchProduct(p)
    \/ EditB_fetchFailed
    \/ Budget(MaxInterleaved) /\ Len(variants) < MaxVariants /\ Create_addVariant
    \/ Budget(MaxInterleaved) /\ Len(variants) < MaxVariants /\ EditA_addVariant
    \/ Budget(MaxInterleaved) /\ Len(variants) < MaxVariants /\ EditB_addVariant
    \/ \E i \in 1..Len(variants) : Budget(MaxInterleaved) /\ Create_removeVariant(i)
    \/ \E i \in 1..Len(variants) : Budget(MaxInterleaved) /\ EditA_removeVariant(i)
    \/ \E i \in 1..Len(variants) : Budget(MaxInterleaved) /\ EditB_removeVariant(i)
    \/ \E i \in 1..Len(variants), fv \in FlowUpdates :
          Budget(MaxInterleaved) /\ Create_updateVariant(i, fv[1], fv[2])
    \/ \E i \in 1..Len(variants), fv \in FlowUpdates :
          Budget(MaxInterleaved) /\ EditA_updateVariant(i, fv[1], fv[2])
    \/ \E i \in 1..Len(variants), fv \in FlowUpdates :
          Budget(MaxInterleaved) /\ EditB_updateVariant(i, fv[1], fv[2])
    \/ \E i \in 1..Len(variants), fs \in FlowBatches :
          /\ Budget(MaxInterleaved) /\ nPicks + Len(fs) <= MaxPicks
          /\ Create_handleVariantImageChange(i, fs)
    \/ \E i \in 1..Len(variants), fs \in FlowBatches :
          /\ Budget(MaxInterleaved) /\ nPicks + Len(fs) <= MaxPicks
          /\ EditA_handleVariantImageChange(i, fs)
    \/ \E i \in 1..Len(variants), fs \in FlowBatches :
          /\ Budget(MaxInterleaved) /\ nPicks + Len(fs) <= MaxPicks
          /\ EditB_handleVariantImageChange(i, fs)
    \/ \E fs \in FlowBatches :
          /\ Budget(MaxInterleaved) /\ nPicks + Len(fs) <= MaxPicks
          /\ EditA_handleGlobalImageChange(fs)
    \/ \E i \in 1..Len(variants), k \in 1..MaxImages :
          Budget(MaxInterleaved) /\ Create_removeVariantImage(i, k)
    \/ \E i \in 1..Len(variants), k \in 1..MaxImages :
          Budget(MaxInterleaved) /\ EditA_removeVariantImage(i, k)
    \/ \E i \in 1..Len(variants), k \in 1..MaxImages :
          Budget(MaxInterleaved) /\ EditB_removeVariantImage(i, k)
    \/ \E k \in 1..MaxImages : Budget(MaxInterleaved) /\ EditA_removeGlobalImage(k)
    \/ \E v \in {<<>>, <<3>>} : Budget(MaxInterleaved) /\ EditA_setGlobalStock(v)
    \/ nSubmits < MaxSubmits /\ Create_handleSubmit
    \/ nSubmits < MaxSubmits /\ EditA_handleSubmit
    \/ nSubmits < MaxSubmits /\ EditB_handleSubmit
    \/ \E ok \in BOOLEAN : Create_uploadReturn(ok)
    \/ \E ok \in BOOLEAN : EditA_globalUploadReturn(ok)
    \/ \E ok \in BOOLEAN : EditA_uploadReturn(ok)
    \/ \E ok \in BOOLEAN : EditB_uploadReturn(ok)
    \/ \E ok \in BOOLEAN, message \in ApiMessages : Create_apiReturn(ok, message)
    \/ \E ok \in BOOLEAN, message \in ApiMessages : EditA_apiReturn(ok, message)
    \/ \E ok \in BOOLEAN, message \in ApiMessages : EditB_apiReturn(ok, message)

Spec == Init /\ [][Next]_vars

\* ---- SpecForm: what the user types, and the validation of handleSubmit.
\* The draft starts as the page mounts it; no file is picked, and the form is
\* edited only while no submission is in flight.
FormUpdates ==
    {<<"name", <<" ">>>>, <<"name", <<"A">>>>, <<"sku", <<"S">>>>,
     <<"price", 0>>, <<"price", 5>>, <<"isDefault", TRUE>>}

NextForm ==
    \/ \E p \in FetchedRecords : EditA_fetchData(p)
    \/ EditA_fetchFailed
    \/ \E p \in FetchedRecords : EditB_fetchProduct(p)
    \/ EditB_fetchFailed
    \/ \E s \in {<<" ">>, <<"P">>} : pc = "idle" /\ SetName(s)
    \/ pc = "idle" /\ SetDescription(<<"D">>)
    \/ pc = "idle" /\ Len(variants) < MaxFormVariants /\ Create_addVariant
    \/ pc = "idle" /\ Len(variants) < MaxFormVariants /\ EditA_addVariant
    \/ pc = "idle" /\ Len(variants) < MaxFormVariants /\ EditB_addVariant
    \/ \E i \in 1..Len(variants) : pc = "idle" /\ Create_removeVariant(i)
    \/ \E i \in 1..Len(variants) : pc = "idle" /\ EditA_removeVariant(i)
    \/ \E i \in 1..Len(variants) : pc = "idle" /\ EditB_removeVariant(i)
    \/ \E i \in 1..Len(variants), fv \in FormUpdates :
          pc = "idle" /\ Create_updateVariant(i, fv[1], fv[2])
    \/ \E i \in 1..Len(variants), fv \in FormUpdates :
          pc = "idle" /\ EditA_updateVariant(i, fv[1], fv[2])
    \/ \E i \in 1..Len(variants), fv \in FormUpdates :
          pc = "idle" /\ EditB_updateVariant(i, fv[1], fv[2])
    \/ \E v \in {<<>>, <<3>>} : pc = "idle" /\ EditA_setGlobalStock(v)
    \/ nSubmits < MaxSubmits /\ Create_handleSubmit
    \/ nSubmits < MaxSubmits /\ EditA_handleSubmit
    \/ nSubmits < MaxSubmits /\ EditB_handleSubmit
    \/ \E ok \in BOOLEAN, message \in ApiMessages : Create_apiReturn(ok, message)
    \/ \E ok \in BOOLEAN, message \in ApiMessages : EditA_apiReturn(ok, message)
    \/ \E ok \in BOOLEAN, message \in ApiMessages : EditB_apiReturn(ok, message)

SpecForm == InitForm /\ [][NextForm]_vars

\* ---- SpecCollection: the variant collection manager alone: hydrate, add,
\* remove and the default flag, on collections of up to MaxCollection variants.
NextCollection ==
    \/ \E p \in FetchedRecords : EditA_fetchData(p)
    \/ EditA_fetchFailed
    \/ \E p \in FetchedRecords : EditB_fetchProduct(p)
    \/ EditB_fetchFailed
    \/ Len(variants) < MaxCollection /\ Create_addVariant
    \/ Len(variants) < MaxCollection /\ EditA_addVariant
    \/ Len(variants) < MaxCollection /\ EditB_addVariant
    \/ \E i \in 1..Len(variants) : Create_removeVariant(i)
    \/ \E i \in 1..Len(variants) : EditA_removeVariant(i)
    \/ \E i \in 1..Len(variants) : EditB_removeVariant(i)
    \/ \E i \in 1..Len(variants), b \in BOOLEAN : Create_updateVariant(i, "isDefault", b)
    \/ \E i \in 1..Len(variants), b \in BOOLEAN : EditA_updateVariant(i, "isDefault", b)
    \/ \E i \in 1..Len(variants), b \in BOOLEAN : EditB_updateVariant(i, "isDefault", b)

SpecCollection == InitForm /\ [][NextCollection]_vars

\* ---- SpecImages: the image sets alone, filled to their limit of MaxImages:
\* one variant (or the global set) hydrated with four images, files picked
\* and images removed.
ImageRecords ==
    { [name |-> <<"P">>, description |-> <<"D">>, stock |-> <<3>>,
       images |-> <<"e1", "e2", "e3", "e4">>, variants |-> <<>>,
       slug |-> <<"p">>, specs |-> <<[key |-> <<"k">>, value |-> <<"v">>]>>],
      [name |-> <<"P">>, description |-> <<"D">>, stock |-> <<>>, images |-> <<>>,
       variants |-> <<FetchedVariant("v1", <<5>>, <<>>, TRUE,
                                     <<"e1", "e2", "e3", "e4">>)>>,
       slug |-> <<"p">>, specs |-> <<[key |-> <<"k">>, value |-> <<"v">>]>>] }

InitImages ==
    \/ /\ mode = "create" /\ view = "form" /\ pc = "idle" /\ net = NoNet
       /\ name = <<"P">> /\ description = <<"D">>
       /\ variants = <<FilledVariant(TRUE)>>
       /\ NothingRunning
    \/ InitEdit

NextImages ==
    \/ \E p \in ImageRecords : EditA_fetchData(p)
    \/ \E p \in ImageRecords : EditB_fetchProduct(p)
    \/ \E i \in 1..Len(variants), fs \in FlowBatches :
          nPicks + Len(fs) <= MaxImagePicks /\ Create_handleVariantImageChange(i, fs)
    \/ \E i \in 1..Len(variants), fs \in FlowBatches :
          nPicks + Len(fs) <= MaxImagePicks /\ EditA_handleVariantImageChange(i, fs)
    \/ \E i \in 1..Len(variants), fs \in FlowBatches :
          nPicks + Len(fs) <= MaxImagePicks /\ EditB_handleVariantImageChange(i, fs)
    \/ \E fs \in FlowBatches :
          nPicks + Len(fs) <= MaxImagePicks /\ EditA_handleGlobalImageChange(fs)
    \/ \E i \in 1..Len(variants), k \in 1..MaxImages : Create_removeVariantImage(i, k)
    \/ \E i \in 1..Len(variants), k \in 1..MaxImages : EditA_removeVariantImage(i, k)
    \/ \E i \in 1..Len(variants), k \in 1..MaxImages : EditB_removeVariantImage(i, k)
    \/ \E k \in 1..MaxImages : EditA_removeGlobalImage(k)

SpecImages == InitImages /\ [][NextImages]_vars

\* ---- SpecRetry: the drafts of SpecImages submitted, with a failed
\* submission and its retry; the draft is edited only between submissions.
NextRetry ==
    \/ \E p \in ImageRecords : EditA_fetchData(p)
    \/ \E p \in ImageRecords : EditB_fetchProduct(p)
    \/ \E i \in 1..Len(variants), fs \in FlowBatches :
          /\ pc = "idle" /\ nPicks + Len(fs) <= MaxRetryPicks
          /\ Create_handleVariantImageChange(i, fs)
    \/ \E i \in 1..Len(variants), fs \in FlowBatches :
          /\ pc = "idle" /\ nPicks + Len(fs) <= MaxRetryPicks
          /\ EditA_handleVariantImageChange(i, fs)
    \/ \E i \in 1..Len(variants), fs \in FlowBatches :
          /\ pc = "idle" /\ nPicks + Len(fs) <= MaxRetryPicks
          /\ EditB_handleVariantImageChange(i, fs)
    \/ \E fs \in FlowBatches :
          /\ pc = "idle" /\ nPicks + Len(fs) <= MaxRetryPicks
          /\ EditA_handleGlobalImageChange(fs)
    \/ \E i \in 1..Len(variants), k \in 1..MaxImages :
          pc = "idle" /\ Create_removeVariantImage(i, k)
    \/ \E i \in 1..Len(variants), k \in 1..MaxImages :
          pc = "idle" /\ EditA_removeVariantImage(i, k)
    \/ \E i \in 1..Len(variants), k \in 1..MaxImages :
          pc = "idle" /\ EditB_removeVariantImage(i, k)
    \/ \E k \in 1..MaxImages : pc = "idle" /\ EditA_removeGlobalImage(k)
    \/ nSubmits < MaxRetrySubmits /\ Create_handleSubmit
    \/ nSubmits < MaxRetrySubmits /\ EditA_handleSubmit
    \/ nSubmits < MaxRetrySubmits /\ EditB_handleSubmit
    \/ \E ok \in BOOLEAN : Create_uploadReturn(ok)
    \/ \E ok \in BOOLEAN : EditA_globalUploadReturn(ok)
    \/ \E ok \in BOOLEAN : EditA_uploadReturn(ok)
    \/ \E ok \in BOOLEAN : EditB_uploadReturn(ok)
    \/ \E ok \in BOOLEAN : Create_apiReturn(ok, Undef)
    \/ \E ok \in BOOLEAN : EditA_apiReturn(ok, Undef)
    \/ \E ok \in BOOLEAN : EditB_apiReturn(ok, Undef)

SpecRetry == InitImages /\ [][NextRetry]_vars

\* ---- SpecSlug: the name typed and erased one character at a time, up to
\* MaxNameLen characters, the slug that follows it, and ProductCreate's payload,
\* the name replaced while the payload is on its way.
MaxNameLen == 3

\* A lower-case and an upper-case letter, white space, the hyphen, the
\* underscore (a word character) and a character that is none of these.
NameChars == {"a", "A", " ", "-", "_", "!"}

\* Products whose stored slug is empty, the one derived from the name, and
\* another one.
SlugRecords ==
    {[p EXCEPT !.name = <<"A">>, !.slug = sl] :
        p \in {q \in FetchedRecords : q.variants = <<>>},
        sl \in {<<>>, <<"a">>, <<"x">>}}

NextSlug ==
    \/ \E p \in SlugRecords : EditA_fetchData(p)
    \/ \E p \in SlugRecords : EditB_fetchProduct(p)
    \/ \E c \in NameChars :
          /\ pc = "idle" /\ nSubmits = 0 /\ Len(name) < MaxNameLen
          /\ SetName(Append(name, c))
    \/ /\ pc = "idle" /\ nSubmits = 0 /\ name # <<>>
       /\ SetName(SubSeq(name, 1, Len(name) - 1))
    \/ pc \in InFlight /\ nEdits < MaxInterleaved /\ SetName(<<"A">>)
    \/ \E s \in {<<>>, <<"x">>} : pc = "idle" /\ EditB_setSlug(s)
    \/ pc = "idle" /\ SetDescription(<<"D">>)
    \/ nSubmits < MaxSubmits /\ Create_handleSubmit
    \/ \E ok \in BOOLEAN : Create_apiReturn(ok, Undef)

\* ProductCreate with its variant filled in and the name still to type, or
\* ProductEdit as mounted.
InitSlug ==
    \/ /\ mode = "create" /\ view = "form" /\ pc = "idle" /\ net = NoNet
       /\ name = <<>> /\ description = <<>>
       /\ variants = <<FilledVariant(TRUE)>>
       /\ NothingRunning
    \/ InitEdit

SpecSlug == InitSlug /\ [][NextSlug]_vars

\* ---- SpecBranch: the two branches of ProductEdit's payload: the product
\* hydrated with or without variants, its variants removed, the global stock
\* typed, global images picked and removed, and the submission; ProductCreate
\* submits next to it.
NextBranch ==
    \/ \E p \in FetchedRecords : EditA_fetchData(p)
    \/ \E v \in {<<>>, <<-1>>, <<0>>, <<3>>} : pc = "idle" /\ EditA_setGlobalStock(v)
    \/ pc = "idle" /\ nPicks < MaxPicks /\ EditA_handleGlobalImageChange(<<"f1">>)
    \/ \E i \in 1..Len(globalImages) : pc = "idle" /\ EditA_removeGlobalImage(i)
    \/ \E i \in 1..Len(variants) : pc = "idle" /\ EditA_removeVariant(i)
    \/ nSubmits < MaxSubmits /\ EditA_handleSubmit
    \/ \E ok \in BOOLEAN : EditA_globalUploadReturn(ok)
    \/ \E ok \in BOOLEAN : EditA_apiReturn(ok, Undef)
    \/ nSubmits < MaxSubmits /\ Create_handleSubmit
    \/ \E ok \in BOOLEAN : Create_apiReturn(ok, Undef)

\* ProductCreate with one filled variant, or ProductEdit (ImageItem version)
\* as mounted.
InitBranch ==
    /\ InitImages
    /\ mode # "editB"

SpecBranch == InitBranch /\ [][NextBranch]_vars

\* ---- SpecSpecs: the specs list of ProductEdit, of up to MaxSpecs entries,
\* hydrated, edited and submitted.
MaxSpecs == 2

\* What is typed in a key and in a value input: a word, a word with white
\* space around it, white space only, and the key __proto__.
NextSpecs ==
    \/ \E p \in {q \in FetchedRecords : q.variants = <<>>} : EditA_fetchData(p)
    \/ pc = "idle" /\ nSubmits = 0 /\ Len(specs) < MaxSpecs /\ EditA_addSpec
    \/ \E i \in 1..Len(specs) : pc = "idle" /\ nSubmits = 0 /\ EditA_removeSpec(i)
    \/ \E i \in 1..Len(specs),
          k \in {<<"k">>, <<" ", "k">>, <<"_", "_", "p", "r", "o", "t", "o", "_", "_">>} :
          pc = "idle" /\ nSubmits = 0 /\ EditA_updateSpec(i, "key", k)
    \/ \E i \in 1..Len(specs), v \in {<<"v">>, <<"w", " ">>, <<" ">>} :
          pc = "idle" /\ nSubmits = 0 /\ EditA_updateSpec(i, "value", v)
    \/ nSubmits < MaxSubmits /\ EditA_handleSubmit
    \/ \E ok \in BOOLEAN : EditA_apiReturn(ok, Undef)

\* ProductEdit (ImageItem version) as mounted.
InitSpecs ==
    /\ InitEdit
    /\ mode = "editA"

SpecSpecs == InitSpecs /\ [][NextSpecs]_vars

\* ---- SpecUploads: the requests of a submission, on drafts of one and two
\* variants with files picked before the submission and fields updated while
\* it is in flight.
NextUploads ==
    \/ \E p \in FetchedRecords : EditA_fetchData(p)
    \/ \E p \in FetchedRecords : EditB_fetchProduct(p)
    \/ \E i \in 1..Len(variants), fs \in FlowBatches :
          /\ pc = "idle" /\ nPicks + Len(fs) <= MaxUploadPicks
          /\ Create_handleVariantImageChange(i, fs)
    \/ \E i \in 1..Len(variants), fs \in FlowBatches :
          /\ pc = "idle" /\ nPicks + Len(fs) <= MaxUploadPicks
          /\ EditA_handleVariantImageChange(i, fs)
    \/ \E i \in 1..Len(variants), fs \in FlowBatches :
          /\ pc = "idle" /\ nPicks + Len(fs) <= MaxUploadPicks
          /\ EditB_handleVariantImageChange(i, fs)
    \/ \E fs \in FlowBatches :
          /\ pc = "idle" /\ nPicks + Len(fs) <= MaxUploadPicks
          /\ EditA_handleGlobalImageChange(fs)
    \/ \E i \in 1..Len(variants), fv \in FlowUpdates :
          /\ pc \in InFlight /\ nEdits < MaxUploadInterleaved
          /\ Create_updateVariant(i, fv[1], fv[2])
    \/ \E i \in 1..Len(variants), fv \in FlowUpdates :
          /\ pc \in InFlight /\ nEdits < MaxUploadInterleaved
          /\ EditA_updateVariant(i, fv[1], fv[2])
    \/ \E i \in 1..Len(variants), fv \in FlowUpdates :
          /\ pc \in InFlight /\ nEdits < MaxUploadInterleaved
          /\ EditB_updateVariant(i, fv[1], fv[2])
    \/ nSubmits < MaxUploadSubmits /\ Create_handleSubmit
    \/ nSubmits < MaxUploadSubmits /\ EditA_handleSubmit
    \/ nSubmits < MaxUploadSubmits /\ EditB_handleSubmit
    \/ \E ok \in BOOLEAN : Create_uploadReturn(ok)
    \/ \E ok \in BOOLEAN : EditA_globalUploadReturn(ok)
    \/ \E ok \in BOOLEAN : EditA_uploadReturn(ok)
    \/ \E ok \in BOOLEAN : EditB_uploadReturn(ok)
    \/ \E ok \in BOOLEAN, message \in ApiMessages : Create_apiReturn(ok, message)
    \/ \E ok \in BOOLEAN, message \in ApiMessages : EditA_apiReturn(ok, message)
    \/ \E ok \in BOOLEAN, message \in ApiMessages : EditB_apiReturn(ok, message)

SpecUploads == Init /\ [][NextUploads]_vars

\* =================================================================== claims
\* update(index, field, value), remove(index) and handleSubmit, in whichever
\* of the three components is mounted.
UpdateStep(index, field, value) ==
    \/ Create_updateVariant(index, field, value)
    \/ EditA_updateVariant(index, field, value)
    \/ EditB_updateVariant(index, field, value)

RemoveStep(index) ==
    \/ Create_removeVariant(index)
    \/ EditA_removeVariant(index)
    \/ EditB_removeVariant(index)

SubmitStep == Create_handleSubmit \/ EditA_handleSubmit \/ EditB_handleSubmit

\* C1: in every component, after update(i, 'isDefault', true) on a non-empty
\* collection exactly one variant is the default, and it is variant i.
C1_UpdateDefaultIsExclusive ==
    [][\A i \in 1..Len(variants) :
          UpdateStep(i, "isDefault", TRUE) =>
              /\ Len(variants') = Len(variants)
              /\ \A j \in 1..Len(variants') : variants'[j].isDefault <=> (j = i)]_vars

\* C8: when remove(i) takes the default variant out and leaves a non-empty
\* collection, that collection has exactly one default, at index 0 (the
\* model's index 1).
C8_RemoveDefaultPromotesFirst ==
    [][\A i \in 1..Len(variants) :
          (variants[i].isDefault /\ RemoveStep(i) /\ Len(variants') > 0) =>
              (DefaultCount(variants') = 1 /\ variants'[1].isDefault)]_vars

\* C9: in every editing state reached by hydrate, add, remove and update, at
\* most one variant is the default.
C9_AtMostOneDefault == view = "form" => DefaultCount(variants) <= 1

\* C2: every payload sent with a non-empty variants list has exactly one
\* default variant, whatever add, remove and update steps came before.
C2_PayloadHasOneDefault ==
    (payload.sent /\ payload.hasVariants /\ Len(payload.variants) > 0) =>
        DefaultCount(payload.variants) = 1

\* C3: in create mode, when the upload of a variant's pending files succeeds
\* returning the URL list U, the payload's images for that variant are exactly
\* U.  Stated on the upload of the last variant, whose answer sends the payload.
C3_CreateImagesAreReturnedUrls ==
    [][(Create_uploadReturn(TRUE) /\ cl.i = Len(cl.V) /\ payload'.sent) =>
          payload'.variants[cl.i].images = Map(net.files, UrlOf)]_vars

\* C4: every payload with a non-empty variants list, from create as from edit,
\* has a basePrice, equal to the price of the payload's default variant.
C4_PayloadBasePriceIsDefaultPrice ==
    (payload.sent /\ payload.hasVariants /\ Len(payload.variants) > 0) =>
        /\ payload.basePrice # <<>>
        /\ \A j \in 1..Len(payload.variants) :
              payload.variants[j].isDefault =>
                  payload.basePrice = <<payload.variants[j].price>>

\* C5: in create mode a submission whose default variant has price 0, all of
\* name, description, variant names and SKUs being non-blank, fails
\* validation: no request is issued and the form stays in editing.
C5_CreateRejectsZeroPrice ==
    [][(/\ Create_handleSubmit
        /\ ~Blank(name) /\ ~Blank(description)
        /\ \A j \in 1..Len(variants) : ~Blank(variants[j].name) /\ ~Blank(variants[j].sku)
        /\ \E j \in 1..Len(variants) : variants[j].isDefault /\ variants[j].price = 0)
       => (pc' = "idle" /\ net'.kind = "none" /\ ~payload'.sent /\ ~submitting')]_vars

\* C6: a submission of a non-empty collection that issues a network call has,
\* for every variant, a non-blank trimmed name, a non-blank trimmed SKU and a
\* price >= 0.
C6_NetworkOnlyWithFilledVariants ==
    [][(SubmitStep /\ Len(variants) > 0 /\ net'.kind \in {"upload", "api"}) =>
          \A j \in 1..Len(variants) :
              /\ Trim(variants[j].name) # <<>>
              /\ Trim(variants[j].sku) # <<>>
              /\ variants[j].price >= 0]_vars

\* A check of handleSubmit fails: the name or the description is blank, or,
\* where the component checks its branch, a branch check fails.
ValidationFails ==
    \/ Blank(name) \/ Blank(description)
    \/ mode = "editA" /\ EditA_validate # NoToast

\* C7: a submission that fails validation issues no network call, never sets
\* the submitting flag and leaves the draft exactly as it was.
C7_RejectedSubmitChangesNothing ==
    [][(SubmitStep /\ ValidationFails) =>
          /\ net' = net /\ net'.kind = "none"
          /\ payload' = payload
          /\ ~submitting' /\ pc' = "idle"
          /\ UNCHANGED <<name, description, variants, globalImages, globalStock,
                         slug, specs>>]_vars

\* A submission was rejected for a name of white space only, which the
\* browser's `required` lets through.
C7_SubmitWasRejected ==
    /\ toast = "Champs obligatoires manquants"
    /\ name # <<>> /\ Blank(name)
    /\ pc = "idle" /\ ~submitting /\ net.kind = "none" /\ ~payload.sent

\* C10: in create mode the collection is never empty: it starts with one
\* default variant, and remove on a one-element collection is refused with a
\* toast and leaves the collection as it is.
C10_CreateCollectionNeverEmpty ==
    /\ mode = "create" => (Len(variants) = 1 /\ variants[1].isDefault)
    /\ [](mode = "create" => Len(variants) >= 1)
    /\ [][\A i \in 1..Len(variants) :
             (Len(variants) = 1 /\ Create_removeVariant(i)) =>
                 /\ variants' = variants
                 /\ toast' = "Au moins une variante est obligatoire"]_vars

\* The removal of the only variant of a create draft was refused.
C10_RemovalWasRefused ==
    /\ mode = "create" /\ Len(variants) = 1
    /\ toast = "Au moins une variante est obligatoire"

\* addFiles on the image set of variant index, in whichever component is
\* mounted.
AddFilesStep(index, files) ==
    \/ Create_handleVariantImageChange(index, files)
    \/ EditA_handleVariantImageChange(index, files)
    \/ EditB_handleVariantImageChange(index, files)

\* What addFiles(files) must make of the set `before`: over the limit, an
\* error toast and the draft as it was; otherwise one pending item per file,
\* in the order of the files, after the items the set had.
AddFilesOutcome(before, after, files) ==
    IF Len(before) + Len(files) > MaxImages
    THEN /\ toast' \in {"Maximum 5 images par variante", "Maximum 5 images globales"}
         /\ UNCHANGED <<name, description, variants, globalImages, globalStock>>
    ELSE /\ Len(after) = Len(before) + Len(files)
         /\ SubSeq(after, 1, Len(before)) = before
         /\ \A j \in 1..Len(files) :
               /\ after[Len(before) + j].file = files[j]
               /\ after[Len(before) + j].url = Undef

\* C11: addFiles on a per-variant or global image set that would then hold
\* more than 5 items is refused with an error toast and leaves the set and the
\* rest of the draft unchanged; otherwise it appends one item per file, in
\* order, at the end of the set and changes no other set.
C11_AddFilesRespectsLimit ==
    [][/\ \A i \in 1..Len(variants), fs \in FlowBatches :
             AddFilesStep(i, fs) =>
                 /\ Len(variants') = Len(variants)
                 /\ AddFilesOutcome(variants[i].images, variants'[i].images, fs)
                 /\ \A j \in 1..Len(variants) :
                       j # i => variants'[j].images = variants[j].images
                 /\ globalImages' = globalImages
       /\ \A fs \in FlowBatches :
             EditA_handleGlobalImageChange(fs) =>
                 /\ AddFilesOutcome(globalImages, globalImages', fs)
                 /\ variants' = variants]_vars

\* A create draft's variant was filled to the limit, one batch after another
\* in order, and a further file was refused.
C11_FullSetRefusedFiles ==
    /\ mode = "create" /\ toast = "Maximum 5 images par variante"
    /\ Len(variants[1].images) = MaxImages
    /\ \E j \in 1..(MaxImages - 1) :
          variants[1].images[j].file = "f1" /\ variants[1].images[j + 1].file = "f2"

\* The lists of ImageItem of the draft, per variant and global, hold at most
\* MaxImages items.
ImageItemListsBounded ==
    /\ Len(globalImages) <= MaxImages
    /\ \A j \in 1..Len(variants) : Len(variants[j].images) <= MaxImages

\* C12: in every reachable state, through addFiles, remove, upload passes and
\* a failed submission retried, every per-variant image set (its ImageItem
\* list and the list of its persisted URLs) and the global image set hold at
\* most 5 items.
C12_ImageSetsBounded ==
    /\ ImageItemListsBounded
    /\ \A j \in 1..Len(variants) : Len(variants[j].uploadedImageUrls) <= MaxImages

\* C13: every variant of every payload sent to the create or update API,
\* the payloads of a retry included, carries at most 5 image URLs.
C13_PayloadImagesBounded ==
    (payload.sent /\ payload.hasVariants) =>
        \A j \in 1..Len(payload.variants) :
            Len(payload.variants[j].images) <= MaxImages

\* The image sets as the running step of handleSubmit finds them: the state's
\* when the step is handleSubmit itself, the captured ones afterwards.
SetsBefore == IF pc = "idle" THEN variants ELSE cl.V

\* The URLs of the items of a set that are not pending files, in their order.
ExistingUrls(set) ==
    LET existing == Filter(set, LAMBDA img : img.file = Undef)
    IN [j \in 1..Len(existing) |-> existing[j].url]

HasPending(set) == \E j \in 1..Len(set) : set[j].file # Undef

\* The upload routines that ran to their return during the step.
ReturnedInStep == (Len(cl.ret) + 1)..Len(cl'.ret)

\* The step sends the upload request of a variant's set.
UploadSent == pc' = "upload" /\ (pc # "upload" \/ cl'.i # cl.i)

\* C14: an upload routine (uploadVariantImages of ProductCreate and of the
\* ImageItem ProductEdit, uploadGlobalImages) run on a set without pending
\* file sends no upload request and returns the URLs of the set's existing
\* items, in their order; a request is only ever sent for a set with pending
\* files.
C14_NoPendingNoRequest ==
    [][/\ (mode \in {"create", "editA"} /\ pc' \in {"upload", "api"}) =>
             \A k \in ReturnedInStep :
                 cl'.ret[k].out = "skipped" =>
                     /\ ~HasPending(SetsBefore[k].images)
                     /\ cl'.ret[k].urls =
                            IF mode = "create" THEN SetsBefore[k].uploadedImageUrls
                            ELSE ExistingUrls(SetsBefore[k].images)
       /\ (mode \in {"create", "editA"} /\ UploadSent) =>
             /\ HasPending(SetsBefore[cl'.i].images)
             /\ net'.kind = "upload" /\ net'.files # <<>>
       /\ (EditA_handleSubmit /\ submitting' /\ ~HasPending(globalImages)) =>
             /\ pc' # "uploadG"
             /\ cl'.gOut = "skipped"
             /\ cl'.finalGlobalUrls = ExistingUrls(globalImages)
       /\ pc' = "uploadG" => (HasPending(globalImages) /\ net'.files # <<>>)]_vars

\* A submission of the ImageItem ProductEdit went through a variant holding
\* four fetched images and no pending file: no request was sent for it and
\* the routine returned the four URLs in their order.
C14_SetWithoutPendingSkipped ==
    /\ mode = "editA" /\ pc = "api"
    /\ Len(cl.ret) = 1 /\ cl.ret[1] = Returned("skipped", <<"e1", "e2", "e3", "e4">>)
    /\ payload.sent /\ payload.variants[1].images = <<"e1", "e2", "e3", "e4">>

\* The pending files of a set, in the order of their items.
PendingFiles(set) ==
    LET pending == Filter(set, LAMBDA img : img.file # Undef)
    IN [j \in 1..Len(pending) |-> pending[j].file]

\* The step sends the update call of the ImageItem ProductEdit.
EditA_ApiSent == mode = "editA" /\ pc # "api" /\ pc' = "api"

\* C15: in the ImageItem ProductEdit, the upload of a set holding existing
\* URLs E and pending files F sends the files in the order of their items
\* and, when it succeeds returning N, the routine yields E ++ N; the payload
\* carries that same list for the set.
C15_UploadYieldsExistingThenNew ==
    [][/\ (mode = "editA" /\ UploadSent) =>
             net'.files = PendingFiles(cl'.V[cl'.i].images)
       /\ (mode = "editA" /\ pc = "upload" /\ EditA_uploadReturn(TRUE)) =>
             cl'.ret[cl.i].urls =
                 ExistingUrls(cl.V[cl.i].images) \o Map(net.files, UrlOf)
       /\ EditA_globalUploadReturn(TRUE) =>
             cl'.finalGlobalUrls = ExistingUrls(cl.G) \o Map(net.files, UrlOf)
       /\ EditA_ApiSent =>
             /\ cl'.gOut = "ok" => payload'.images = cl'.finalGlobalUrls
             /\ \A k \in 1..Len(cl'.ret) :
                   cl'.ret[k].out = "ok" =>
                       /\ payload'.hasVariants /\ k <= Len(payload'.variants)
                       /\ payload'.variants[k].images = cl'.ret[k].urls]_vars

\* The URLs of the persisted items of a variant's set: the URL items of
\* images in the ImageItem ProductEdit, uploadedImageUrls elsewhere.
PersistedUrls(v) ==
    IF mode = "editA" THEN ExistingUrls(v.images) ELSE v.uploadedImageUrls

Range(s) == {s[j] : j \in 1..Len(s)}

\* The upload request of a variant's set comes back failed.
UploadFailed ==
    Create_uploadReturn(FALSE) \/ EditA_uploadReturn(FALSE) \/ EditB_uploadReturn(FALSE)

\* The step sends the create or update call.
ApiSent == pc # "api" /\ pc' = "api"

\* C16: when the upload request of a set fails, an error toast of the
\* variant upload (or of the global upload) is raised, the routine returns
\* only URLs of items the set already had persisted, the set gains no URL,
\* and the payload's images for that set are the URLs already persisted.
C16_FailedUploadKeepsPersistedOnly ==
    [][/\ UploadFailed =>
             /\ toast' \in {"Erreur upload images variante",
                            "Echec upload images variante",
                            "Erreur upload images pour une variante"}
             /\ cl'.ret[cl.i].out = "failed"
             /\ Range(cl'.ret[cl.i].urls) \subseteq Range(PersistedUrls(cl.V[cl.i]))
             /\ PersistedUrls(cl'.V[cl.i]) = PersistedUrls(cl.V[cl.i])
       /\ EditA_globalUploadReturn(FALSE) =>
             /\ toast' = "Echec upload images globales"
             /\ cl'.gOut = "failed"
             /\ cl'.finalGlobalUrls = ExistingUrls(cl.G)
             /\ globalImages' = globalImages
       /\ ApiSent =>
             /\ cl'.gOut = "failed" => payload'.images = cl'.finalGlobalUrls
             /\ \A k \in 1..Len(cl'.ret) :
                   cl'.ret[k].out = "failed" =>
                       /\ payload'.hasVariants /\ k <= Len(payload'.variants)
                       /\ payload'.variants[k].images = PersistedUrls(cl'.V[k])]_vars

\* The upload of a file added to a set of four fetched images failed in the
\* ImageItem ProductEdit: the toast of the variant upload is up, the routine
\* returned the four URLs and the payload carries them alone.
C16_FailedUploadSentPersisted ==
    /\ mode = "editA" /\ pc = "api" /\ toast = "Echec upload images variante"
    /\ Len(cl.ret) = 1
    /\ cl.ret[1] = Returned("failed", <<"e1", "e2", "e3", "e4">>)
    /\ Len(cl.V[1].images) = MaxImages
    /\ payload.sent /\ payload.variants[1].images = <<"e1", "e2", "e3", "e4">>

\* The variants after index i whose captured set has pending files.
PendingAfter(i) == {j \in (i + 1)..Len(cl.V) : HasPending(cl.V[j].images)}

Least(S) == CHOOSE j \in S : \A k \in S : j <= k

\* C17: within a submission, the failure of the upload of variant i leaves
\* the submission running: the upload of the next variant after i that has
\* pending files is sent, with its files; when there is none the create or
\* update call is sent.
C17_FailedUploadBlocksNothing ==
    [][UploadFailed =>
          /\ submitting'
          /\ IF PendingAfter(cl.i) # {}
             THEN /\ pc' = "upload" /\ net'.kind = "upload"
                  /\ cl'.i = Least(PendingAfter(cl.i))
                  /\ net'.files = PendingFiles(cl.V[cl'.i].images)
             ELSE /\ pc' = "api" /\ net'.kind = "api"
                  /\ payload'.sent]_vars

\* The upload of the first variant failed and the upload of the second
\* variant's file is in flight.
C17_SecondUploadAfterFailure ==
    /\ pc = "upload" /\ cl.i = 2 /\ net.kind = "upload" /\ net.files # <<>>
    /\ cl.ret[1].out = "failed"
    /\ toast \in {"Erreur upload images variante", "Echec upload images variante",
                  "Erreur upload images pour une variante"}

\* C18: a submission that passed validation sends its create or update call
\* once: it starts with its uploads or the call, every upload that returns is
\* followed by the next upload or by the call, the call is sent when every
\* upload routine of the submission has returned (no set with pending files
\* passed over, no request left in flight), and the answer to the call ends
\* the submission.
C18_OneCallAfterAllUploads ==
    [][/\ (SubmitStep /\ submitting') => pc' \in InFlight
       /\ pc \in {"uploadG", "upload"} => pc' \in {"uploadG", "upload", "api"}
       /\ \A k \in ReturnedInStep :
             cl'.ret[k].out = "skipped" => ~HasPending(cl'.V[k].images)
       /\ ApiSent =>
             /\ net'.kind = "api" /\ payload'.sent
             /\ cl'.gOut # "pending"
             /\ Len(cl'.ret) = Len(cl'.V)
       /\ pc = "api" =>
             \/ pc' = "api" /\ net' = net /\ payload' = payload
             \/ pc' \in {"idle", "done"} /\ ~submitting' /\ net'.kind = "none"]_vars

\* The call of a submission is in flight after the uploads of its two
\* variants were sent one after the other and both returned.
C18_CallAfterTwoUploads ==
    /\ pc = "api" /\ net.kind = "api" /\ payload.sent /\ submitting
    /\ Len(cl.ret) = 2
    /\ cl.ret[1].out \in {"ok", "failed"} /\ cl.ret[2].out \in {"ok", "failed"}

\* An upload request comes back.
UploadReturns ==
    \E ok \in BOOLEAN :
        \/ Create_uploadReturn(ok) \/ EditB_uploadReturn(ok)
        \/ EditA_uploadReturn(ok) \/ EditA_globalUploadReturn(ok)

\* C19: at most one upload request is in flight: the request of a variant's
\* set is sent when the routines of all the sets before it, the global one
\* included, have returned, and a request in flight is replaced by nothing
\* but what follows its own return.
C19_UploadsOneAtATime ==
    [][/\ UploadSent =>
             /\ cl'.gOut # "pending"
             /\ Len(cl'.ret) = cl'.i - 1
             /\ pc = "upload" => Len(cl.ret) = cl.i - 1
       /\ (pc = "idle" /\ pc' = "uploadG") => (cl'.ret = <<>> /\ cl'.gOut = "pending")
       /\ pc = "uploadG" => (cl.gOut = "pending" /\ cl.ret = <<>>)
       /\ (pc \in {"uploadG", "upload"} /\ (net' # net \/ pc' # pc \/ cl'.i # cl.i)) =>
             UploadReturns]_vars

\* The upload of the second variant's files is in flight, sent after the
\* upload of the first variant's succeeded.
C19_SecondUploadAfterFirst ==
    /\ pc = "upload" /\ net.kind = "upload" /\ cl.i = 2
    /\ cl.ret = <<Returned("ok", cl.ret[1].urls)>>
    /\ cl.ret[1].urls # <<>>

FilledDraftReachable ==
    /\ mode = "create" /\ pc = "idle" /\ nSubmits = 0
    /\ name = <<"P">> /\ description = <<"D">>
    /\ variants = <<FilledVariant(TRUE), FilledVariant(FALSE)>>
    /\ cl = NoCl /\ payload = NoPayload /\ toast = NoToast /\ ~submitting

\* ------------------------------------------------------------------- C21
\* The create or update call has failed / has succeeded.
ApiFailed(m) ==
    Create_apiReturn(FALSE, m) \/ EditA_apiReturn(FALSE, m) \/ EditB_apiReturn(FALSE, m)

\* C21: when the create or update call fails, one error is shown (the
\* collaborator's message when it gave one, a generic one otherwise), the form
\* stays on screen in Editing with submitting false, and the draft (name,
\* description, slug, variants, specs, global images and stock) is what it was
\* before the answer; the form is left only by a call that succeeded.
C21_FailedCallKeepsDraft ==
    [][/\ \A m \in ApiMessages :
             ApiFailed(m) =>
                /\ m # Undef => toast' = m
                /\ m = Undef => toast' \notin (ApiMessages \cup {NoToast})
                /\ view' = "form" /\ pc' = "idle" /\ ~submitting'
                /\ ClearRefs(variants') = ClearRefs(variants)
                /\ UNCHANGED <<name, description, slug, specs, globalImages, globalStock>>
       /\ (view = "form" /\ view' # "form") => (pc = "api" /\ pc' = "done")]_vars

\* A call made after two uploads has failed without a message: the generic
\* error is shown over the draft, which can be submitted again.
C21_CallFailedDraftOnScreen ==
    /\ view = "form" /\ pc = "idle" /\ ~submitting /\ payload.sent
    /\ toast = "Erreur lors de la sauvegarde"
    /\ Len(variants) = 2 /\ name = <<"P">>

\* ------------------------------------------------------------------- C22
\* C22: deriving a slug from a derived slug gives that slug again, for each of
\* the three derivations (ProductCreate's, and the two of ProductEdit; the
\* second of these is taken with the slug field empty, where it derives).
C22_SlugDerivationIdempotent ==
    view = "form" =>
        /\ Create_slugEffect(Create_slugEffect(name)) = Create_slugEffect(name)
        /\ EditA_slugEffect(EditA_slugEffect(name)) = EditA_slugEffect(name)
        /\ EditB_slugEffect(EditB_slugEffect(name, <<>>), <<>>) = EditB_slugEffect(name, <<>>)

\* A name whose slug differs from it (upper case, a deleted character, a
\* hyphen at the end) has been typed, and its slug derived.
C22_SlugOfMixedNameDerived ==
    /\ mode = "create" /\ name = <<"A", "!", "-">> /\ slug = <<"a">>

\* ------------------------------------------------------------------- C23
\* The reference slug of a name, computed word by word: lower-case the name,
\* drop what is neither a word character, white space nor a hyphen, cut what is
\* left at its runs of white space and hyphens, and join the words with one
\* hyphen each.
RECURSIVE JoinWords(_)
JoinWords(s) ==
    LET Sep == WS \cup {"-"}
        first == CHOOSE k \in 1..(Len(s) + 1) :
                     /\ \A j \in 1..(k - 1) : s[j] \in Sep
                     /\ (k = Len(s) + 1 \/ s[k] \notin Sep)
        last == CHOOSE k \in (first - 1)..Len(s) :
                     /\ \A j \in first..k : s[j] \notin Sep
                     /\ (k = Len(s) \/ s[k + 1] \in Sep)
        rest == JoinWords(SubSeq(s, last + 1, Len(s)))
    IN IF first > Len(s) THEN <<>>
       ELSE IF rest = <<>> THEN SubSeq(s, first, last)
       ELSE SubSeq(s, first, last) \o <<"-">> \o rest

ReferenceSlug(n) ==
    JoinWords(SelectSeq(ToLowerCase(n), LAMBDA c : c \in WordChars \cup WS \cup {"-"}))

ExampleName ==
    <<"M", "a", "n", "e", "t", "t", "e", " ", "D", "u", "a", "l", "S", "e", "n", "s", "e",
      " ", "C", "u", "s", "t", "o", "m", " ", "F", "I", "F", "A", " ", "2", "5">>

ExampleSlug ==
    <<"m", "a", "n", "e", "t", "t", "e", "-", "d", "u", "a", "l", "s", "e", "n", "s", "e",
      "-", "c", "u", "s", "t", "o", "m", "-", "f", "i", "f", "a", "-", "2", "5">>

\* C23: the slug derived from a name is the reference slug of that name: in
\* ProductCreate the slug field holds it after every change of the name, and
\* ProductEdit derives it when its slug field is empty; a blank name has the
\* empty slug, and "Manette DualSense Custom FIFA 25" has
\* "manette-dualsense-custom-fifa-25".
C23_SlugIsReferenceSlug ==
    view = "form" =>
        /\ Create_slugEffect(name) = ReferenceSlug(name)
        /\ EditB_slugEffect(name, <<>>) = ReferenceSlug(name)
        /\ mode = "create" => slug = ReferenceSlug(name)
        /\ Blank(name) => Create_slugEffect(name) = <<>> /\ EditB_slugEffect(name, <<>>) = <<>>
        /\ Create_slugEffect(ExampleName) = ExampleSlug
        /\ EditB_slugEffect(ExampleName, <<>>) = ExampleSlug

\* Two words typed with white space between them: the slug field shows them
\* in lower case, joined by one hyphen.
C23_TwoWordsJoined ==
    /\ mode = "create" /\ name = <<"a", " ", "A">> /\ slug = <<"a", "-", "a">>

\* ------------------------------------------------------------------- C24
\* C24: in the edit forms, loading a product whose slug is not empty puts that
\* slug in the slug field, and a later change of the name made while the slug
\* field is not empty leaves the slug field as it is.
C24_LoadedSlugIsStable ==
    [][/\ \A p \in SlugRecords :
             ((EditA_fetchData(p) \/ EditB_fetchProduct(p)) /\ p.slug # <<>>)
                 => slug' = p.slug
       /\ (mode \in {"editA", "editB"} /\ pc = "idle" /\ name' # name /\ slug # <<>>)
             => slug' = slug]_vars

\* ------------------------------------------------------------------- C25
\* C25: in ProductCreate the slug field holds the slug derived from the name
\* after every change of the name, and the slug of the payload a submission
\* sends is the slug derived from the name that submission was made with.
C25_CreateSlugFollowsName ==
    mode = "create" =>
        /\ view = "form" => slug = Create_slugEffect(name)
        /\ pc = "api" => /\ payload.sent
                         /\ payload.slug = Create_slugEffect(cl.name)

\* A create payload is on its way with the slug of its name, the name on
\* screen changed since.
C25_PayloadSlugSent ==
    /\ mode = "create" /\ pc = "api"
    /\ cl.name = <<"A", " ", "a">> /\ payload.slug = <<"a", "-", "a">>
    /\ name # cl.name

\* ------------------------------------------------------------------- C26
\* The form of ProductEdit has no variant and its global stock is missing or
\* negative, or it has no global image.
SimpleBranchInvalid ==
    /\ mode = "editA" /\ view = "form" /\ Len(variants) = 0
    /\ (globalStock = <<>> \/ globalStock[1] < 0 \/ Len(globalImages) = 0)

\* C26: from a draft without variants whose global stock is undefined or
\* negative, or whose global image set is empty, no step issues a network call
\* or a payload, and a submission made from it ends with an error shown and
\* the draft as it was.
C26_SimpleBranchValidated ==
    [][(SimpleBranchInvalid /\ pc = "idle") =>
          /\ net' = net /\ net'.kind = "none"
          /\ payload' = payload
          /\ ~submitting' /\ pc' = "idle"
          /\ EditA_handleSubmit =>
                /\ toast' # NoToast
                /\ UNCHANGED <<name, description, variants, globalImages, globalStock,
                               slug, specs>>]_vars

\* A product without variants was submitted with a stock of 0 and its only
\* global image removed: the submission was refused for the image.
C26_RefusedForNoImage ==
    /\ mode = "editA" /\ pc = "idle" /\ Len(variants) = 0
    /\ globalStock = <<0>> /\ globalImages = <<>>
    /\ toast = "Au moins une image globale requise sans variantes"
    /\ ~payload.sent

\* ------------------------------------------------------------------- C27
\* C27: every payload sent is of one of two shapes: with a non-empty list of
\* variants, no stock and an empty list of global images, or with a stock, the
\* global image URLs and no variants.
C27_PayloadIsOneBranch ==
    payload.sent =>
        \/ /\ payload.hasVariants /\ Len(payload.variants) > 0
           /\ payload.stock = <<>> /\ payload.images = <<>>
        \/ /\ ~payload.hasVariants /\ payload.variants = <<>>
           /\ payload.stock # <<>>

\* ------------------------------------------------------------------- C28
\* The specs object the claim describes, as the list of its qualifying
\* entries: an entry qualifies when its trimmed key and trimmed value are not
\* empty, and the last qualifying entry of a key gives the key's value.
Qualifies(s) == Trim(s.key) # <<>> /\ Trim(s.value) # <<>>

ExpectedSpecs(S) ==
    LET Q == {j \in 1..Len(S) : Qualifies(S[j])}
        LastOf(k) == CHOOSE j \in Q :
                        /\ Trim(S[j].key) = k
                        /\ \A i \in Q : Trim(S[i].key) = k => i <= j
    IN [k \in {Trim(S[j].key) : j \in Q} |-> Trim(S[LastOf(k)].value)]

\* C28: the specs object of a payload is the fold of the specs list the
\* submission was made with: it has the trimmed key of every entry whose
\* trimmed key and trimmed value are not empty, with the trimmed value of the
\* last such entry of that key, and the payload has no specs field when no
\* entry qualifies; the submission leaves the list on screen as it was.
C28_PayloadSpecsIsFold ==
    [][EditA_handleSubmit =>
          /\ specs' = specs
          /\ payload'.sent /\ payload' # payload =>
                IF \E j \in 1..Len(specs) : Qualifies(specs[j])
                THEN payload'.specs = <<ExpectedSpecs(specs)>>
                ELSE payload'.specs = <<>>]_vars

\* ------------------------------------------------------------------- C29
\* C29: a variant is hydrated with the record's price when the record has one,
\* else with the record's priceDifference when it has one, else with 0; the
\* variants of a payload carry a price and no priceDifference.
C29_HydratedPriceIsAbsolute ==
    [][/\ \A p \in FetchedRecords :
             (EditA_fetchData(p) \/ EditB_fetchProduct(p)) =>
                 \A j \in 1..Len(p.variants) :
                     variants'[j].price =
                        IF p.variants[j].price # <<>> THEN p.variants[j].price[1]
                        ELSE IF p.variants[j].priceDifference # <<>>
                        THEN p.variants[j].priceDifference[1]
                        ELSE 0
       /\ payload'.sent =>
             \A j \in 1..Len(payload'.variants) :
                 /\ "price" \in DOMAIN payload'.variants[j]
                 /\ "priceDifference" \notin DOMAIN payload'.variants[j]]_vars

\* ------------------------------------------------------------------- C30
\* add(), in whichever component is mounted.
AddStep == Create_addVariant \/ EditA_addVariant \/ EditB_addVariant

\* C30: add() appends exactly one variant, at the end, with empty name and
\* SKU, price 0, stock 0 and no images, which is the default exactly when the
\* collection was empty before; the variants that were there are unchanged.
C30_AddAppendsOneBlankVariant ==
    [][AddStep =>
          /\ Len(variants') = Len(variants) + 1
          /\ \A j \in 1..Len(variants) : variants'[j] = variants[j]
          /\ LET new == variants'[Len(variants')]
             IN /\ new.name = <<>> /\ new.sku = <<>>
                /\ new.price = 0 /\ new.stock = 0
                /\ new.images = <<>> /\ new.uploadedImageUrls = <<>>
                /\ new.isDefault <=> (Len(variants) = 0)]_vars

\* Two variants were added to an emptied collection: the first is the
\* default, the second is not.
C30_AddedToEmptyThenAgain ==
    /\ mode = "editA" /\ view = "form" /\ Len(variants) = 2
    /\ variants[1].name = <<>> /\ variants[1].isDefault
    /\ variants[2].name = <<>> /\ ~variants[2].isDefault

\* ------------------------------------------------------------------- C31
\* C31: in the edit forms remove(i) is never refused: for every index of the
\* collection it takes one variant out and shows no error, also when the
\* collection has one variant, which leaves it empty.
C31_EditRemoveNeverRefused ==
    [][\A i \in 1..Len(variants) :
          (EditA_removeVariant(i) \/ EditB_removeVariant(i)) =>
              /\ Len(variants') = Len(variants) - 1
              /\ toast' = NoToast]_vars

\* ------------------------------------------------------------------- C32
\* C32: hydrating a fetched record that has variants gives a draft with
\* exactly one default variant, the first one when the record marks none.
C32_HydrateGivesOneDefault ==
    [][\A p \in FetchedRecords :
          ((EditA_fetchData(p) \/ EditB_fetchProduct(p)) /\ Len(p.variants) > 0) =>
              /\ DefaultCount(variants') = 1
              /\ ~SomeDefault(p.variants) => variants'[1].isDefault]_vars

\* ------------------------------------------------------------------- C33
\* The set holds URL items only, as many as the set the pass ran on, and their
\* URLs are that set's existing URLs followed by the URLs returned for files.
RefreshedFrom(after, before, files) ==
    /\ \A j \in 1..Len(after) : after[j].url # Undef /\ after[j].file = Undef
    /\ Len(after) = Len(before)
    /\ Map(after, UrlOfItem) = ExistingUrls(before) \o Map(files, UrlOf)

RemoveImageStep(i, k) ==
    \/ Create_removeVariantImage(i, k)
    \/ EditA_removeVariantImage(i, k)
    \/ EditB_removeVariantImage(i, k)

\* The URLs of the persisted items of a set on screen.
KeptUrls(set) ==
    {(IF mode = "editA" THEN img.url ELSE img.preview) :
        img \in {x \in Range(set) : x.file = Undef}}

\* The URLs the server gives for the pending files of a set on screen.
UploadableUrls(set) == {UrlOf(img.file) : img \in {x \in Range(set) : x.file # Undef}}

\* C34: removing image k of a variant's set sends nothing, deletes that item
\* and keeps the others in their order; the image URLs of a payload are URLs
\* of items in the set when it is submitted, and they include the URL of
\* every persisted item of the set.
C34_RemovedImageNeverSubmitted ==
    [][/\ \A i \in 1..Len(variants), k \in 1..MaxImages :
             RemoveImageStep(i, k) =>
                 /\ net' = net /\ pc' = pc /\ payload' = payload
                 /\ Len(variants') = Len(variants)
                 /\ variants'[i].images = RemoveAt(variants[i].images, k)
                 /\ \A j \in 1..Len(variants) :
                        j # i => variants'[j].images = variants[j].images
       /\ (ApiSent /\ payload'.hasVariants) =>
             \A j \in 1..Len(payload'.variants) :
                 /\ Range(payload'.variants[j].images) \subseteq
                        KeptUrls(variants[j].images) \cup UploadableUrls(variants[j].images)
                 /\ KeptUrls(variants[j].images) \subseteq
                        Range(payload'.variants[j].images)]_vars

\* ------------------------------------------------------------------- C35
\* ---- SpecResubmit: the drafts of SpecImages with files picked before the
\* first submission and nothing edited afterwards; a submission whose call
\* failed is submitted again.
NextResubmit ==
    \/ \E p \in ImageRecords : EditA_fetchData(p)
    \/ \E p \in ImageRecords : EditB_fetchProduct(p)
    \/ \E i \in 1..Len(variants), fs \in FlowBatches :
          /\ pc = "idle" /\ nSubmits = 0 /\ nPicks + Len(fs) <= MaxRetryPicks
          /\ Create_handleVariantImageChange(i, fs)
    \/ \E i \in 1..Len(variants), fs \in FlowBatches :
          /\ pc = "idle" /\ nSubmits = 0 /\ nPicks + Len(fs) <= MaxRetryPicks
          /\ EditA_handleVariantImageChange(i, fs)
    \/ \E i \in 1..Len(variants), fs \in FlowBatches :
          /\ pc = "idle" /\ nSubmits = 0 /\ nPicks + Len(fs) <= MaxRetryPicks
          /\ EditB_handleVariantImageChange(i, fs)
    \/ \E fs \in FlowBatches :
          /\ pc = "idle" /\ nSubmits = 0 /\ nPicks + Len(fs) <= MaxRetryPicks
          /\ EditA_handleGlobalImageChange(fs)
    \/ nSubmits < MaxRetrySubmits /\ Create_handleSubmit
    \/ nSubmits < MaxRetrySubmits /\ EditA_handleSubmit
    \/ nSubmits < MaxRetrySubmits /\ EditB_handleSubmit
    \/ \E ok \in BOOLEAN : Create_uploadReturn(ok)
    \/ \E ok \in BOOLEAN : EditA_globalUploadReturn(ok)
    \/ \E ok \in BOOLEAN : EditA_uploadReturn(ok)
    \/ \E ok \in BOOLEAN : EditB_uploadReturn(ok)
    \/ \E ok \in BOOLEAN : Create_apiReturn(ok, Undef)
    \/ \E ok \in BOOLEAN : EditA_apiReturn(ok, Undef)
    \/ \E ok \in BOOLEAN : EditB_apiReturn(ok, Undef)

SpecResubmit == InitImages /\ [][NextResubmit]_vars

\* A payload was sent and it carries the URL of every file of the draft: the
\* uploads of that submission succeeded.
UploadsSucceeded ==
    /\ payload.sent
    /\ \A j \in 1..Len(variants) :
          HasPending(variants[j].images) =>
              /\ j <= Len(payload.variants)
              /\ UploadableUrls(variants[j].images) \subseteq Range(payload.variants[j].images)
    /\ UploadableUrls(globalImages) \subseteq Range(payload.images)

\* C35: when a submission whose uploads succeeded is submitted again with the
\* draft unedited, no upload request is sent and the payload of the second
\* call is the payload of the first.
C35_RetrySendsSamePayload ==
    [][UploadsSucceeded =>
          /\ pc' \notin {"upload", "uploadG"}
          /\ ApiSent => payload' = payload]_vars

\* ------------------------------------------------------------------- C36
\* The payload the running handleSubmit would build from what its closure
\* holds now.
PendingPayload ==
    CASE mode = "create" -> Create_payload(cl, cl.V)
      [] mode = "editA" -> EditA_payload(cl, cl.V)
      [] OTHER -> EditB_payload(cl, cl.V)

\* A step taken while an upload of the submission is pending and that is not
\* the answer to it: an edit of the user.
InFlightEdit ==
    /\ pc \in {"uploadG", "upload"} /\ pc' = pc
    /\ cl'.i = cl.i /\ cl'.ret = cl.ret /\ cl'.gOut = cl.gOut

\* C36: an edit made while an upload of the submission is pending does not
\* change the payload the submission is going to send; the payload sent
\* carries the URLs its uploads returned and exactly one default variant.
C36_PayloadFixedAtSubmit ==
    [][/\ InFlightEdit => PendingPayload' = PendingPayload
       /\ (ApiSent /\ payload'.hasVariants) =>
             /\ DefaultCount(payload'.variants) = 1
             /\ \A k \in 1..Len(cl'.ret) :
                    cl'.ret[k].out = "ok" =>
                        /\ k <= Len(payload'.variants)
                        /\ Range(cl'.ret[k].urls) \subseteq
                               Range(payload'.variants[k].images)]_vars

\* ------------------------------------------------------------------- C37
\* The answer, success or failure, to the request that is pending.
NetworkReturns ==
    \/ \E ok \in BOOLEAN : Create_uploadReturn(ok)
    \/ \E ok \in BOOLEAN : EditA_globalUploadReturn(ok)
    \/ \E ok \in BOOLEAN : EditA_uploadReturn(ok)
    \/ \E ok \in BOOLEAN : EditB_uploadReturn(ok)
    \/ \E ok \in BOOLEAN, message \in ApiMessages : Create_apiReturn(ok, message)
    \/ \E ok \in BOOLEAN, message \in ApiMessages : EditA_apiReturn(ok, message)
    \/ \E ok \in BOOLEAN, message \in ApiMessages : EditB_apiReturn(ok, message)

\* ---- SpecLive: the submission flow of Spec, every request of which is
\* eventually answered.
SpecLive == Init /\ [][Next]_vars /\ WF_vars(NetworkReturns)

\* C37: a submission that passed validation runs the upload routine once per
\* variant it captured before its call is sent, keeps `submitting` true while
\* a request is pending, and, every request being answered, ends (created or
\* updated, or failed) with `submitting` false.
C37_SubmissionSettles ==
    /\ [](pc \in InFlight => submitting)
    /\ [][ApiSent => Len(cl'.ret) = Len(cl'.V)]_vars
    /\ (pc \in InFlight) ~> (pc \in {"idle", "done"} /\ ~submitting)

\* A submission of two variants ran both upload routines and its call failed:
\* the form is back with the error and the flag is down.
C37_FailedAfterTwoUploads ==
    /\ pc = "idle" /\ nSubmits = 1 /\ ~submitting
    /\ payload.sent /\ Len(payload.variants) = 2
    /\ toast \in {"Erreur creation produit", "Erreur lors de la sauvegarde",
                  "Erreur lors de la modification"}

\* ------------------------------------------------------------------- C38
\* ---- SpecUpdate: the fields of the variants typed into, on the variants of
\* a fetched product and on the two variants of a new draft.
VariantUpdates == FormUpdates \cup FlowUpdates \cup {<<"stock", 0>>, <<"stock", 7>>}

NextUpdate ==
    \/ \E p \in FetchedRecords : EditA_fetchData(p)
    \/ \E p \in FetchedRecords : EditB_fetchProduct(p)
    \/ \E i \in 1..Len(variants), fv \in VariantUpdates :
          Create_updateVariant(i, fv[1], fv[2])
    \/ \E i \in 1..Len(variants), fv \in VariantUpdates :
          EditA_updateVariant(i, fv[1], fv[2])
    \/ \E i \in 1..Len(variants), fv \in VariantUpdates :
          EditB_updateVariant(i, fv[1], fv[2])

SpecUpdate == Init /\ [][NextUpdate]_vars

\* The fields of a variant of the draft.
VariantFields ==
    {"id", "name", "sku", "price", "stock", "isDefault", "images", "uploadedImageUrls"}

\* C38: update(i, field, value) keeps the length and the order of the
\* collection and gives variant i the value in the named field; no other
\* field of any variant changes, except that with field = isDefault and
\* value = true the isDefault flags of the other variants may change too.
C38_UpdateTouchesNamedFieldOnly ==
    [][\A i \in 1..Len(variants), fv \in VariantUpdates :
          UpdateStep(i, fv[1], fv[2]) =>
              /\ Len(variants') = Len(variants)
              /\ variants'[i][fv[1]] = fv[2]
              /\ \A j \in 1..Len(variants), f \in VariantFields :
                     variants'[j][f] # variants[j][f] =>
                         /\ f = fv[1]
                         /\ j = i \/ (f = "isDefault" /\ fv[2] = TRUE)]_vars

\* The price of the first of two fetched variants was set to 0: it keeps its
\* id, its image and its default flag, and the second variant is as fetched.
C38_PriceOfFirstVariantZeroed ==
    /\ mode \in {"editA", "editB"} /\ Len(variants) = 2
    /\ variants[1].id = "v1" /\ variants[1].price = 0
    /\ variants[1].isDefault /\ Len(variants[1].images) = 1
    /\ variants[2].id = "v2" /\ ~variants[2].isDefault

\* ------------------------------------------------------------------- C39
\* The ids of the variants of a collection, in their order.
IdsOf(vs) == [j \in 1..Len(vs) |-> vs[j].id]

\* C39: once the product is loaded, a step leaves the ids of the collection
\* as they are, or appends a variant without id, or takes one variant out;
\* the answer to the upload of a variant's files changes the images of no
\* variant with another id; in the payload of an update each variant carries
\* the id, the name, the SKU, the price and the stock of the variant of the
\* submitted draft at its position; an id that is sent is the id of a fetched
\* variant, and an added variant is sent without id.
C39_VariantIdentityKept ==
    [][/\ (view = "form" /\ pc # "loading" /\ view' = "form") =>
             \/ IdsOf(variants') = IdsOf(variants)
             \/ IdsOf(variants') = Append(IdsOf(variants), Undef)
             \/ \E i \in 1..Len(variants) : IdsOf(variants') = RemoveAt(IdsOf(variants), i)
       /\ (mode \in {"editA", "editB"} /\ pc = "upload" /\ cl'.ret # cl.ret) =>
             \A j \in 1..Len(variants) :
                 variants'[j].images # variants[j].images => variants[j].id = cl.V[cl.i].id
       /\ (mode \in {"editA", "editB"} /\ ApiSent /\ payload'.hasVariants) =>
             /\ Len(payload'.variants) = Len(SetsBefore)
             /\ \A k \in 1..Len(payload'.variants) :
                    LET sent == payload'.variants[k]
                        v == SetsBefore[k]
                    IN /\ sent.id = v.id /\ sent.id \in {Undef, "v1", "v2"}
                       /\ sent.name = Trim(v.name) /\ sent.sku = Trim(v.sku)
                       /\ sent.price = v.price /\ sent.stock = v.stock]_vars
====
